---- MODULE Spec2Model ----
(***************************************************************************)
(* A model of pdb-go: the MSF container (superblock, stream directory,     *)
(* virtual streams), the symbol indices and the lazily built caches.       *)
(* Pure functions of the Go code are operators; every exported operation   *)
(* is one action.  The sizes, offsets and counts tried stay far below 2^31, *)
(* so no sum or product of the model leaves the range of Go's uint32 and   *)
(* int64 arithmetic; the one uint32 with its top bit set the model needs,  *)
(* NilStreamSize, is held as the int32 of the same bit pattern.            *)
(***************************************************************************)
EXTENDS Integers, Sequences, FiniteSets, TLC

VARIABLES
    \* msf.Stream under test (package msf, stream.go): the record holds the
    \* fields data, blocks, blockSize, streamSize, pos
    stream,
    \* what the last call on the stream returned
    ret,
    \* the bytes handed out by Read since the position was last 0
    seq,
    \* the byte source handed to msf.NewFile and the number of ReadAt calls
    \* made on it so far
    src,
    srcReads,
    \* the msf.File NewFile returned (NoFile before, and when it failed) and
    \* the error NewFile returned
    msf,
    openErr,
    \* msf.File's lazily loaded directory: dirOnce done, directory, dirErr
    dirOnce,
    directory,
    dirErr,
    \* what the last call on the msf.File returned
    fret,
    \* pdb.SymbolTable: the bytes of the symbol-record stream (symRecordData),
    \* the records they were written from, and the address map of the PSI
    symData,
    symRecs,
    addrMap,
    \* the lazily built indices (NoIndex before they are built)
    nameIndex,
    addrIndex,
    \* what the last lookup on the SymbolTable returned
    sret,
    \* the lazily built structures of pdb.File and pdb.SymbolTable under
    \* concurrent callers: per structure its sync.Once (done, locked), the
    \* value and error fields beside it, and how often its build has run
    once,
    cell,
    builds,
    \* the slice header of st.publicSymbols, a pointer word and a length word
    pubSyms,
    \* per thread its stack of calls in progress and what its last call
    \* returned; per structure the outcomes its callers were handed
    thr,
    cret,
    returned,
    \* the structures whose own build fails, and whether a thread has read
    \* st.publicSymbols while another was inside the build that writes it
    failing,
    raced,
    \* the number of calls the threads have started
    calls,
    \* the bytes handed to tpi.ParseStream, the Stream it returned (with its
    \* error), the Stream's typeCache, what the last GetTypeRecord returned
    \* and, per type index, every result GetTypeRecord has returned for it
    tpiData,
    tpi,
    typeCache,
    tget,
    fetched,
    \* the bytes handed to dbi.ParseStream, the Stream it returned (with its
    \* error) and what File.loadSectionHeaders then did
    dbiData,
    dbi,
    dret,
    \* the modules of the PDB (what Modules() returns, each with the stream it
    \* reads), each module's symbolsOnce cache, the iterator being consumed
    \* (its position in the producer's code), the elements it has yielded,
    \* the number of records parsed since it started, and the point at which
    \* the consumer stopped it
    mods,
    modSyms,
    it,
    yielded,
    parsed,
    stopped,
    \* the classes the TPI stream of a TypeTable was written from, the
    \* TypeTable's memberIndex, and what its last call returned
    decl,
    memberIndex,
    mret,
    \* SymbolTable.publicSymbols (nil until PublicCached has run) and what the
    \* last of Public, PublicCached and PublicCount returned
    publicSymbols,
    pret,
    \* a stream.Reader (its data and offset) and what the last call on it
    \* returned
    reader,
    rret,
    \* TypeTable.typeCache (type index to the Type stored), where each thread
    \* is in its ByIndex call, the Types allocated so far (the type index each
    \* was decoded from), what the calls returned, and the type indices whose
    \* entry a Store replaced or whose lookups overlapped
    ttTypeCache,
    lookup,
    allocated,
    given,
    replaced,
    overlapped,
    \* a pdb.File: its closed flag and whether its msf.File has a closer (it
    \* was opened from a path), the byte source (closed or not, and the
    \* streams that do not parse), the lazily loaded structures, the ReadAt
    \* calls made on the byte source after Close had returned, and what the
    \* last call returned
    pdb,
    source,
    lazy,
    lateReads,
    pcall,
    \* the name of a symbol (the characters of a decorated name), what the
    \* last call of Demangle on it returned and left in its demangler, and the
    \* symbol's demangledOnce and demangledName with what DemangledName
    \* returned
    symName,
    dem,
    symbol

streamVars == <<stream, ret, seq>>

fileVars == <<src, srcReads, msf, openErr, dirOnce, directory, dirErr, fret>>

symVars == <<symData, symRecs, addrMap, nameIndex, addrIndex, sret>>

conVars == <<once, cell, builds, pubSyms, thr, cret, returned, failing, raced, calls>>

tpiVars == <<tpiData, tpi, typeCache, tget, fetched>>

dbiVars == <<dbiData, dbi, dret>>

iterVars == <<mods, modSyms, it, yielded, parsed, stopped>>

typeVars == <<decl, memberIndex, mret>>

pubVars == <<publicSymbols, pret>>

readerVars == <<reader, rret>>

cacheVars == <<ttTypeCache, lookup, allocated, given, replaced, overlapped>>

closeVars == <<pdb, source, lazy, lateReads, pcall>>

demVars == <<symName, dem, symbol>>

vars == <<stream, ret, seq, src, srcReads, msf, openErr, dirOnce, directory,
          dirErr, fret, symData, symRecs, addrMap, nameIndex, addrIndex, sret,
          once, cell, builds, pubSyms, thr, cret, returned, failing, raced, calls,
          tpiData, tpi, typeCache, tget, fetched, dbiData, dbi, dret,
          mods, modSyms, it, yielded, parsed, stopped, decl, memberIndex, mret,
          publicSymbols, pret, reader, rret,
          ttTypeCache, lookup, allocated, given, replaced, overlapped,
          pdb, source, lazy, lateReads, pcall, symName, dem, symbol>>

----------------------------------------------------------------------------
(* Arithmetic helpers *)

\* F of the value of x: x is a local variable of the code, computed once
With(x, F(_)) == CHOOSE out \in { F(v) : v \in {x} } : TRUE

Min(a, b) == IF a < b THEN a ELSE b

Max(a, b) == IF a > b THEN a ELSE b

\* the error values the model distinguishes
NoErr == "nil"
EOF == "io.EOF"

----------------------------------------------------------------------------
(* The byte source (io.ReaderAt).  A source is [size, bytes]: bytes maps    *)
(* some offsets below size to their value, every other offset below size   *)
(* holds 0.                                                                *)

SrcByte(d, o) == IF o \in DOMAIN d.bytes THEN d.bytes[o] ELSE o % 251

\* data.ReadAt(p, off) with len(p) = n, as bytes.Reader and os.File behave:
\* the bytes of [off, off+n) that exist, and io.EOF when fewer than n exist
SrcReadAt(d, n, off) ==
    LET k == IF off >= d.size THEN 0 ELSE Min(n, d.size - off)
    IN  [n     |-> k,
         err   |-> IF off >= d.size \/ k < n THEN EOF ELSE NoErr,
         bytes |-> [i \in 1..k |-> SrcByte(d, off + i - 1)]]

----------------------------------------------------------------------------
(* msf.Stream *)

\* the file offset of stream position pos, treating the stream's blocks as
\* one run starting at its first block (a variant of FileOffset)
FileOffset_Contiguous(s, pos) == s.blocks[1] * s.blockSize + pos

\* the file offset of stream position pos: its block's start plus the offset
\* within the block
FileOffset(s, pos) ==
    LET blockIndex  == pos \div s.blockSize
        blockOffset == pos % s.blockSize
    IN  s.blocks[blockIndex + 1] * s.blockSize + blockOffset

\* the loop of Stream.ReadAt: plen is len(p), acc the bytes copied so far,
\* reads the number of ReadAt calls made on the byte source
RECURSIVE ReadAtLoop(_, _, _, _, _, _)
ReadAtLoop(s, plen, pos, totalRead, acc, reads) ==
    IF ~(plen > 0 /\ pos < s.streamSize)
    THEN [n |-> totalRead, err |-> NoErr, bytes |-> acc, returned |-> FALSE,
          reads |-> reads]
    ELSE
      LET blockIndex  == pos \div s.blockSize
          blockOffset == pos % s.blockSize
      IN  IF blockIndex >= Len(s.blocks)
          THEN [n |-> totalRead, err |-> EOF, bytes |-> acc, returned |-> TRUE,
                reads |-> reads]
          ELSE
            LET fileOffset      == FileOffset(s, pos)
                blockRemaining  == s.blockSize - blockOffset
                streamRemaining == s.streamSize - pos
                toRead == Min(Min(plen, blockRemaining), streamRemaining)
                r      == SrcReadAt(s.data, toRead, fileOffset)
                total  == totalRead + r.n
                acc2   == acc \o r.bytes
            IN  IF r.err # NoErr
                THEN IF r.err = EOF /\ total > 0
                     THEN [n |-> total, err |-> NoErr, bytes |-> acc2,
                           returned |-> FALSE, reads |-> reads + 1]
                     ELSE [n |-> total, err |-> r.err, bytes |-> acc2,
                           returned |-> TRUE, reads |-> reads + 1]
                ELSE ReadAtLoop(s, plen - r.n, pos + r.n, total, acc2, reads + 1)

\* Stream.ReadAt(p, off) with len(p) = plen: [n, err, bytes, reads]
Stream_ReadAt(s, plen, off) ==
    IF off < 0
    THEN [n |-> 0, err |-> "negative offset", bytes |-> <<>>, reads |-> 0]
    ELSE IF off >= s.streamSize
    THEN [n |-> 0, err |-> EOF, bytes |-> <<>>, reads |-> 0]
    ELSE
      LET l == ReadAtLoop(s, plen, off, 0, <<>>, 0)
      IN  IF l.returned
          THEN [n |-> l.n, err |-> l.err, bytes |-> l.bytes, reads |-> l.reads]
          ELSE IF l.n = 0 /\ s.pos >= s.streamSize
               THEN [n |-> 0, err |-> EOF, bytes |-> <<>>, reads |-> l.reads]
               ELSE [n |-> l.n, err |-> NoErr, bytes |-> l.bytes, reads |-> l.reads]

\* Stream.Read(p) with len(p) = plen: the result and the new position
Stream_Read(s, plen) ==
    IF s.pos >= s.streamSize
    THEN [n |-> 0, err |-> EOF, bytes |-> <<>>, pos |-> s.pos]
    ELSE
      LET remaining == s.streamSize - s.pos
          plen2     == IF plen > remaining THEN remaining ELSE plen
          r         == Stream_ReadAt(s, plen2, s.pos)
      IN  [n |-> r.n, err |-> r.err, bytes |-> r.bytes, pos |-> s.pos + r.n]

SeekStart == 0
SeekCurrent == 1
SeekEnd == 2

\* Stream.Seek(offset, whence): the returned position, the error, the new pos
Stream_Seek(s, offset, whence) ==
    IF whence \notin {SeekStart, SeekCurrent, SeekEnd}
    THEN [n |-> 0, err |-> "invalid seek whence", pos |-> s.pos]
    ELSE
      LET newPos == CASE whence = SeekStart   -> offset
                      [] whence = SeekCurrent -> s.pos + offset
                      [] whence = SeekEnd     -> s.streamSize + offset
      IN  IF newPos < 0
          THEN [n |-> 0, err |-> "negative seek position", pos |-> s.pos]
          ELSE LET clamped == IF newPos > s.streamSize THEN s.streamSize ELSE newPos
               IN  [n |-> clamped, err |-> NoErr, pos |-> clamped]

\* Stream.Bytes(): the whole stream read with one ReadAt at 0
Stream_Bytes(s) ==
    LET r == Stream_ReadAt(s, s.streamSize, 0)
    IN  IF r.err # NoErr /\ r.err # EOF
        THEN [n |-> 0, err |-> r.err, bytes |-> <<>>, reads |-> r.reads]
        ELSE [n |-> r.n, err |-> NoErr, bytes |-> r.bytes, reads |-> r.reads]

\* NewStream(data, blocks, blockSize, streamSize)
NewStream(data, blocks, blockSize, streamSize) ==
    [data |-> data, blocks |-> blocks, blockSize |-> blockSize,
     streamSize |-> streamSize, pos |-> 0]

----------------------------------------------------------------------------
(* Little-endian uint32 words.  A uint32 below 2^31 is the integer itself;  *)
(* one with the top bit set is held as the int32 of the same bit pattern,  *)
(* and ULt compares two such values as Go compares uint32.                 *)

ULt(a, b) == IF (a < 0) = (b < 0) THEN a < b ELSE b < 0

\* binary.LittleEndian.Uint32(data[off:]), off counted from 0
Uint32LE(data, off) ==
    LET b3 == data[off + 4]
    IN  data[off + 1] + 256 * data[off + 2] + 65536 * data[off + 3]
          + 16777216 * (IF b3 >= 128 THEN b3 - 256 ELSE b3)

\* the four bytes of a uint32, low byte first
PutUint32LE(v) ==
    LET w  == IF v < 0 THEN v + 2147483647 + 1 ELSE v
        hi == IF v < 0 THEN 128 ELSE 0
    IN  <<w % 256, (w \div 256) % 256, (w \div 65536) % 256, hi + (w \div 16777216)>>

\* a & b of two non-negative integers
RECURSIVE BitAnd(_, _)
BitAnd(a, b) ==
    IF a = 0 \/ b = 0 THEN 0
    ELSE (a % 2) * (b % 2) + 2 * BitAnd(a \div 2, b \div 2)

----------------------------------------------------------------------------
(* msf.SuperBlock *)

\* "Microsoft C/C++ MSF 7.00\r\n\x1aDS\0\0\0"
Magic == <<77, 105, 99, 114, 111, 115, 111, 102, 116, 32, 67, 47, 67, 43, 43, 32,
           77, 83, 70, 32, 55, 46, 48, 48, 13, 10, 26, 68, 83, 0, 0, 0>>
MagicSize == 32
SuperBlockSize == 56
BlockSizeMin == 512
BlockSizeMax == 65536
NilStreamSize == -1

ErrInvalidMagic == "ErrInvalidMagic"
ErrInvalidBlockSize == "ErrInvalidBlockSize"
ErrInvalidFPMBlock == "ErrInvalidFPMBlock"
ErrTruncatedFile == "ErrTruncatedFile"
ErrTruncatedDirectory == "ErrTruncatedDirectory"
ErrInvalidStreamIndex == "ErrInvalidStreamIndex"
ErrInvalidBlockIndex == "ErrInvalidBlockIndex"

\* SuperBlock.Validate without the power-of-two test (a variant of Validate)
Validate_RangeOnly(sb) ==
    IF sb.FileMagic # Magic THEN ErrInvalidMagic
    ELSE IF ULt(sb.BlockSize, BlockSizeMin) \/ ULt(BlockSizeMax, sb.BlockSize)
    THEN ErrInvalidBlockSize
    ELSE IF sb.FreeBlockMapBlock # 1 /\ sb.FreeBlockMapBlock # 2
    THEN ErrInvalidFPMBlock
    ELSE NoErr

\* SuperBlock.Validate with the magic compared after the other fields (a
\* variant of Validate)
Validate_MagicLast(sb) ==
    IF ULt(sb.BlockSize, BlockSizeMin) \/ ULt(BlockSizeMax, sb.BlockSize)
    THEN ErrInvalidBlockSize
    ELSE IF BitAnd(sb.BlockSize, sb.BlockSize - 1) # 0
    THEN ErrInvalidBlockSize
    ELSE IF sb.FreeBlockMapBlock # 1 /\ sb.FreeBlockMapBlock # 2
    THEN ErrInvalidFPMBlock
    ELSE IF sb.FileMagic # Magic THEN ErrInvalidMagic
    ELSE NoErr

\* SuperBlock.Validate
Validate(sb) ==
    IF sb.FileMagic # Magic THEN ErrInvalidMagic
    ELSE IF ULt(sb.BlockSize, BlockSizeMin) \/ ULt(BlockSizeMax, sb.BlockSize)
    THEN ErrInvalidBlockSize
    ELSE IF BitAnd(sb.BlockSize, sb.BlockSize - 1) # 0
    THEN ErrInvalidBlockSize
    ELSE IF sb.FreeBlockMapBlock # 1 /\ sb.FreeBlockMapBlock # 2
    THEN ErrInvalidFPMBlock
    ELSE NoErr

\* ReadSuperBlock over the 56 bytes NewFile read: binary.Read of the struct,
\* then Validate
ReadSuperBlock(sbData) ==
    LET sb == [FileMagic         |-> SubSeq(sbData, 1, MagicSize),
               BlockSize         |-> Uint32LE(sbData, 32),
               FreeBlockMapBlock |-> Uint32LE(sbData, 36),
               NumBlocks         |-> Uint32LE(sbData, 40),
               NumDirectoryBytes |-> Uint32LE(sbData, 44),
               Unknown           |-> Uint32LE(sbData, 48),
               BlockMapAddr      |-> Uint32LE(sbData, 52)]
    IN  [sb |-> sb, err |-> Validate(sb)]

\* SuperBlock.NumDirectoryBlocks
NumDirectoryBlocks(sb) == (sb.NumDirectoryBytes + sb.BlockSize - 1) \div sb.BlockSize

\* SuperBlock.FileSize
FileSize(sb) == sb.NumBlocks * sb.BlockSize

\* SuperBlock.BlockOffset
BlockOffset(sb, blockNum) == blockNum * sb.BlockSize

NoFile == [open |-> FALSE]

\* NewFile(r, size): the error, the File and the ReadAt calls made on r
NewFile(r) ==
    IF r.size < SuperBlockSize
    THEN [err |-> ErrTruncatedFile, file |-> NoFile, reads |-> 0]
    ELSE
      LET sbData == SrcReadAt(r, SuperBlockSize, 0)
          rs     == ReadSuperBlock(sbData.bytes)
      IN  IF sbData.err # NoErr
          THEN [err |-> "failed to read superblock", file |-> NoFile, reads |-> 1]
          ELSE IF rs.err # NoErr
          THEN [err |-> rs.err, file |-> NoFile, reads |-> 1]
          ELSE IF r.size < FileSize(rs.sb)
          THEN [err |-> "file too small", file |-> NoFile, reads |-> 1]
          ELSE [err |-> NoErr,
                file |-> [open |-> TRUE, superBlock |-> rs.sb, size |-> r.size],
                reads |-> 1]

----------------------------------------------------------------------------
(* msf.StreamDirectory and msf.DirectoryReader *)

\* the block lists of ParseDirectory: streams i..NumStreams, read from offset
RECURSIVE ParseStreamBlocks(_, _, _, _, _, _)
ParseStreamBlocks(data, blockSize, StreamSizes, i, offset, acc) ==
    IF i > Len(StreamSizes) THEN [err |-> NoErr, StreamBlocks |-> acc]
    ELSE
      LET size == StreamSizes[i]
      IN  IF size = NilStreamSize \/ size = 0
          THEN ParseStreamBlocks(data, blockSize, StreamSizes, i + 1, offset,
                                 Append(acc, <<>>))
          ELSE
            LET numBlocks == (size + blockSize - 1) \div blockSize
            IN  IF offset + 4 * numBlocks > Len(data)
                THEN [err |-> ErrTruncatedDirectory, StreamBlocks |-> <<>>]
                ELSE ParseStreamBlocks(data, blockSize, StreamSizes, i + 1,
                         offset + 4 * numBlocks,
                         Append(acc, [j \in 1..numBlocks |->
                                        Uint32LE(data, offset + 4 * (j - 1))]))

NoDirectory == [NumStreams |-> 0, StreamSizes |-> <<>>, StreamBlocks |-> <<>>]

\* ParseDirectory(data, blockSize): [err, dir]
ParseDirectory(data, blockSize) ==
    IF Len(data) < 4 THEN [err |-> ErrTruncatedDirectory, dir |-> NoDirectory]
    ELSE
      LET NumStreams == Uint32LE(data, 0)
      IN  IF NumStreams < 0 \/ Len(data) < 4 + NumStreams * 4
          THEN [err |-> ErrTruncatedDirectory, dir |-> NoDirectory]
          ELSE
            LET StreamSizes == [i \in 1..NumStreams |-> Uint32LE(data, 4 * i)]
                b == ParseStreamBlocks(data, blockSize, StreamSizes, 1,
                                       4 + 4 * NumStreams, <<>>)
            IN  IF b.err # NoErr THEN [err |-> b.err, dir |-> NoDirectory]
                ELSE [err |-> NoErr,
                      dir |-> [NumStreams   |-> NumStreams,
                               StreamSizes  |-> StreamSizes,
                               StreamBlocks |-> b.StreamBlocks]]

\* StreamDirectory.StreamSize(streamIndex), streamIndex counted from 0
StreamSize(d, streamIndex) ==
    IF ~ULt(streamIndex, d.NumStreams) THEN 0
    ELSE IF d.StreamSizes[streamIndex + 1] = NilStreamSize THEN 0
    ELSE d.StreamSizes[streamIndex + 1]

\* StreamDirectory.StreamExists(streamIndex)
StreamExists(d, streamIndex) ==
    IF ~ULt(streamIndex, d.NumStreams) THEN FALSE
    ELSE /\ d.StreamSizes[streamIndex + 1] # NilStreamSize
         /\ ULt(0, d.StreamSizes[streamIndex + 1])

\* the block-map blocks of readBlockMap, read one by one from BlockMapAddr + i
RECURSIVE ReadBlockMapBlocks(_, _, _, _, _, _)
ReadBlockMapBlocks(sb, data, numBlockMapBlocks, i, acc, reads) ==
    IF i >= numBlockMapBlocks THEN [err |-> NoErr, bytes |-> acc, reads |-> reads]
    ELSE
      LET r == SrcReadAt(data, sb.BlockSize, BlockOffset(sb, sb.BlockMapAddr + i))
      IN  IF r.err # NoErr
          THEN [err |-> "failed to read block map", bytes |-> <<>>, reads |-> reads + 1]
          ELSE ReadBlockMapBlocks(sb, data, numBlockMapBlocks, i + 1,
                                  acc \o r.bytes, reads + 1)

\* DirectoryReader.readBlockMap: [err, blockMap, reads]
readBlockMap(sb, data) ==
    LET numDirectoryBlocks == NumDirectoryBlocks(sb)
        blockMapSize       == numDirectoryBlocks * 4
        numBlockMapBlocks  == (blockMapSize + sb.BlockSize - 1) \div sb.BlockSize
        r == ReadBlockMapBlocks(sb, data, numBlockMapBlocks, 0, <<>>, 0)
    IN  IF r.err # NoErr THEN [err |-> r.err, blockMap |-> <<>>, reads |-> r.reads]
        ELSE [err |-> NoErr,
              blockMap |-> [i \in 1..numDirectoryBlocks |->
                              Uint32LE(r.bytes, 4 * (i - 1))],
              reads |-> r.reads]

\* the loop of readDirectoryBlocks over blockIndices[i..]
RECURSIVE ReadDirectoryBlocksLoop(_, _, _, _, _, _, _)
ReadDirectoryBlocksLoop(sb, data, blockIndices, i, remaining, acc, reads) ==
    IF i > Len(blockIndices) THEN [err |-> NoErr, bytes |-> acc, reads |-> reads]
    ELSE
      LET blockIdx == blockIndices[i]
      IN  IF ~ULt(blockIdx, sb.NumBlocks)
          THEN [err |-> ErrInvalidBlockIndex, bytes |-> <<>>, reads |-> reads]
          ELSE
            LET toRead == Min(sb.BlockSize, remaining)
                r      == SrcReadAt(data, toRead, BlockOffset(sb, blockIdx))
            IN  IF r.err # NoErr
                THEN [err |-> "failed to read directory block", bytes |-> <<>>,
                      reads |-> reads + 1]
                ELSE ReadDirectoryBlocksLoop(sb, data, blockIndices, i + 1,
                         remaining - toRead, acc \o r.bytes, reads + 1)

\* DirectoryReader.readDirectoryBlocks: [err, bytes, reads]
readDirectoryBlocks(sb, data, blockIndices) ==
    ReadDirectoryBlocksLoop(sb, data, blockIndices, 1, sb.NumDirectoryBytes, <<>>, 0)

\* DirectoryReader.ReadDirectory: [err, dir, reads]
ReadDirectory(sb, data) ==
    LET bm == readBlockMap(sb, data)
    IN  IF bm.err # NoErr
        THEN [err |-> bm.err, dir |-> NoDirectory, reads |-> bm.reads]
        ELSE
          LET dd == readDirectoryBlocks(sb, data, bm.blockMap)
          IN  IF dd.err # NoErr
              THEN [err |-> dd.err, dir |-> NoDirectory, reads |-> bm.reads + dd.reads]
              ELSE LET pd == ParseDirectory(dd.bytes, sb.BlockSize)
                   IN  [err |-> pd.err, dir |-> pd.dir,
                        reads |-> bm.reads + dd.reads]

----------------------------------------------------------------------------
(* stream.Reader and the symbol record parsers (package symbols) *)

ErrUnexpectedEOF == "stream.ErrUnexpectedEOF"
ErrInvalidNumeric == "stream.ErrInvalidNumeric"
ErrUnexpectedEnd == "symbols.ErrUnexpectedEnd"
ErrInvalidSymbolRecord == "symbols.ErrInvalidSymbolRecord"

S_END == 6
S_CONSTANT_ST == 4098
S_UDT_ST == 4099
S_THUNK32 == 4354
S_BLOCK32 == 4355
S_LABEL32 == 4357
S_LOCAL == 4414
S_CONSTANT == 4359
S_UDT == 4360
S_LDATA32 == 4364
S_GDATA32 == 4365
S_PUB32 == 4366
S_LPROC32 == 4367
S_GPROC32 == 4368
S_LPROC32_ID == 4422
S_GPROC32_ID == 4423

\* data[n:]
Drop(data, n) == SubSeq(data, n + 1, Len(data))

\* binary.LittleEndian.Uint16(data[off:]) and the two bytes of a uint16
Uint16LE(data, off) == data[off + 1] + 256 * data[off + 2]
PutUint16LE(v) == <<v % 256, (v \div 256) % 256>>

\* the offset of the first zero byte of data at or after off, Len(data) when
\* there is none
RECURSIVE FindNul(_, _)
FindNul(data, off) ==
    IF off >= Len(data) THEN Len(data)
    ELSE IF data[off + 1] = 0 THEN off
    ELSE FindNul(data, off + 1)

\* Reader.ReadCString with the reader at off: [err, s]
ReadCString(data, off) ==
    LET z == FindNul(data, off)
    IN  IF z >= Len(data) THEN [err |-> ErrUnexpectedEOF, s |-> <<>>]
        ELSE [err |-> NoErr, s |-> SubSeq(data, off + 1, z)]

\* the bytes Reader.ReadNumeric consumes with the reader at off: [err, size]
NumericSize(data, off) ==
    IF off + 2 > Len(data) THEN [err |-> ErrUnexpectedEOF, size |-> 0]
    ELSE
      LET leaf == Uint16LE(data, off)
          more == CASE leaf < 32768 -> 0
                    [] leaf = 32768 -> 1
                    [] leaf \in {32769, 32770} -> 2
                    [] leaf \in {32771, 32772} -> 4
                    [] leaf \in {32777, 32778} -> 8
                    [] OTHER -> -1
      IN  IF more < 0 THEN [err |-> ErrInvalidNumeric, size |-> 0]
          ELSE IF off + 2 + more > Len(data)
          THEN [err |-> ErrUnexpectedEOF, size |-> 0]
          ELSE [err |-> NoErr, size |-> 2 + more]

NoParsedSym(err) == [err |-> err, Name |-> <<>>, Offset |-> 0, Segment |-> 0]

\* a symbol whose payload is hdr bytes of fixed fields, Offset at offAt and
\* Segment at segAt (-1: the kind has none), and then the name
ParseNamedSym(data, hdr, offAt, segAt) ==
    IF hdr > Len(data) THEN NoParsedSym(ErrUnexpectedEOF)
    ELSE LET n == ReadCString(data, hdr)
         IN  IF n.err # NoErr THEN NoParsedSym(n.err)
             ELSE [err     |-> NoErr,
                   Name    |-> n.s,
                   Offset  |-> IF offAt < 0 THEN 0 ELSE Uint32LE(data, offAt),
                   Segment |-> IF segAt < 0 THEN 0 ELSE Uint16LE(data, segAt)]

\* ParsePublicSym32: Flags u32, Offset u32, Segment u16, Name
ParsePublicSym32(data) == ParseNamedSym(data, 10, 4, 8)

\* ParseDataSym: Type u32, Offset u32, Segment u16, Name
ParseDataSym(data) == ParseNamedSym(data, 10, 4, 8)

\* ParseProcSym: seven u32, CodeOffset u32, Segment u16, Flags u8, Name
ParseProcSym(data) == ParseNamedSym(data, 35, 28, 32)

\* ParseUDTSym: Type u32, Name
ParseUDTSym(data) == ParseNamedSym(data, 4, -1, -1)

\* ParseConstantSym: Type u32, Value numeric, Name
ParseConstantSym(data) ==
    IF 4 > Len(data) THEN NoParsedSym(ErrUnexpectedEOF)
    ELSE LET v == NumericSize(data, 4)
         IN  IF v.err # NoErr THEN NoParsedSym(v.err)
             ELSE ParseNamedSym(data, 4 + v.size, -1, -1)

\* ParseLocalSym: Type u32, Flags u16, Name
ParseLocalSym(data) == ParseNamedSym(data, 6, -1, -1)

\* ParseLabelSym: Offset u32, Segment u16, Flags u8, Name
ParseLabelSym(data) == ParseNamedSym(data, 7, 0, 4)

\* ParseBlockSym: Parent, End, CodeSize u32, Offset u32, Segment u16, Name
ParseBlockSym(data) == ParseNamedSym(data, 18, 12, 16)

\* ParseThunkSym: Parent, End, Next u32, Offset u32, Segment u16, Length u16,
\* Ordinal u8, Name
ParseThunkSym(data) == ParseNamedSym(data, 21, 12, 16)

\* a variant of ParseSymbolRecord that reports the length field as the size
ParseSymbolRecord_LengthOnly(data) ==
    IF Len(data) < 4
    THEN [err |-> ErrUnexpectedEnd, Kind |-> 0, Data |-> <<>>, size |-> 0]
    ELSE
      LET length    == Uint16LE(data, 0)
          kind      == Uint16LE(data, 2)
          totalSize == length + 2
          dataLen   == length - 2
      IN  IF totalSize > Len(data)
          THEN [err |-> ErrUnexpectedEnd, Kind |-> 0, Data |-> <<>>, size |-> 0]
          ELSE IF dataLen < 0
          THEN [err |-> ErrInvalidSymbolRecord, Kind |-> 0, Data |-> <<>>, size |-> 0]
          ELSE [err |-> NoErr, Kind |-> kind,
                Data |-> SubSeq(data, 5, 4 + dataLen), size |-> length]

\* ParseSymbolRecord(data): [err, Kind, Data, size]
ParseSymbolRecord(data) ==
    IF Len(data) < 4
    THEN [err |-> ErrUnexpectedEnd, Kind |-> 0, Data |-> <<>>, size |-> 0]
    ELSE
      LET length    == Uint16LE(data, 0)
          kind      == Uint16LE(data, 2)
          totalSize == length + 2
          dataLen   == length - 2
      IN  IF totalSize > Len(data)
          THEN [err |-> ErrUnexpectedEnd, Kind |-> 0, Data |-> <<>>, size |-> 0]
          ELSE IF dataLen < 0
          THEN [err |-> ErrInvalidSymbolRecord, Kind |-> 0, Data |-> <<>>, size |-> 0]
          ELSE [err |-> NoErr, Kind |-> kind,
                Data |-> SubSeq(data, 5, 4 + dataLen), size |-> totalSize]

----------------------------------------------------------------------------
(* symbols.NameIndex and symbols.AddressIndex.  Names are short enough for  *)
(* hashName to stay below 2^31, so its uint32 arithmetic never wraps.       *)

numBuckets == 4096

\* hashName(name)
RECURSIVE hashName_from(_, _, _)
hashName_from(name, i, hash) ==
    IF i > Len(name) THEN hash ELSE hashName_from(name, i + 1, hash * 31 + name[i])
hashName(name) == hashName_from(name, 1, 0)

\* getSymbolName(rec); the empty name when the kind has none or the payload
\* does not parse
getSymbolName(rec) ==
    LET sym == CASE rec.Kind = S_PUB32 -> ParsePublicSym32(rec.Data)
                 [] rec.Kind \in {S_GPROC32, S_LPROC32, S_GPROC32_ID, S_LPROC32_ID}
                      -> ParseProcSym(rec.Data)
                 [] rec.Kind \in {S_GDATA32, S_LDATA32} -> ParseDataSym(rec.Data)
                 [] rec.Kind = S_UDT -> ParseUDTSym(rec.Data)
                 [] rec.Kind = S_CONSTANT -> ParseConstantSym(rec.Data)
                 [] OTHER -> NoParsedSym("no name")
    IN  IF sym.err = NoErr THEN sym.Name ELSE <<>>

\* the scan of NewNameIndex from offset on: the nameEntry values in the order
\* they are appended
RECURSIVE NameIndexScan(_, _, _)
NameIndexScan(data, offset, acc) ==
    IF ~(Len(data) - offset > 4) THEN acc
    ELSE
      LET rec == ParseSymbolRecord(Drop(data, offset))
      IN  IF rec.err # NoErr THEN acc
          ELSE
            LET name == getSymbolName(rec)
            IN  NameIndexScan(data, offset + rec.size,
                    IF name # <<>>
                    THEN Append(acc, [name |-> name, symOffset |-> offset])
                    ELSE acc)

\* NewNameIndex(symData); buckets holds the buckets that are not empty
NewNameIndex(data) ==
    LET es == NameIndexScan(data, 0, <<>>)
        bucketOf(e) == hashName(e.name) % numBuckets
    IN  [built   |-> TRUE,
         buckets |-> [b \in {bucketOf(es[i]) : i \in 1..Len(es)} |->
                        SelectSeq(es, LAMBDA e : bucketOf(e) = b)]]

\* NameIndex.FindByName without the comparison of the names (a variant of
\* NameIndex_FindByName)
NameIndex_FindByName_WholeBucket(idx, name) ==
    LET bucket == hashName(name) % numBuckets
        entries == IF bucket \in DOMAIN idx.buckets THEN idx.buckets[bucket] ELSE <<>>
    IN  [i \in 1..Len(entries) |-> entries[i].symOffset]

\* NameIndex.FindByName(name): the offsets, in bucket order
NameIndex_FindByName(idx, name) ==
    LET bucket == hashName(name) % numBuckets
        entries == IF bucket \in DOMAIN idx.buckets THEN idx.buckets[bucket] ELSE <<>>
        hits == SelectSeq(entries, LAMBDA e : e.name = name)
    IN  [i \in 1..Len(hits) |-> hits[i].symOffset]

\* a variant of the loop of NewAddressIndex that takes records of every kind
RECURSIVE AddressEntries_AnyKind(_, _, _, _)
AddressEntries_AnyKind(map, data, i, acc) ==
    IF i > Len(map) THEN acc
    ELSE
      LET symOffset == map[i]
          rec == ParseSymbolRecord(Drop(data, symOffset))
          sym == ParsePublicSym32(rec.Data)
      IN  IF \/ symOffset + 10 > Len(data)
             \/ rec.err # NoErr
             \/ sym.err # NoErr
          THEN AddressEntries_AnyKind(map, data, i + 1, acc)
          ELSE AddressEntries_AnyKind(map, data, i + 1,
                   Append(acc, [Section |-> sym.Segment, Offset |-> sym.Offset,
                                SymOffset |-> symOffset]))

\* the loop of NewAddressIndex over addrMap[i..]: the entries in append order
RECURSIVE AddressEntries(_, _, _, _)
AddressEntries(map, data, i, acc) ==
    IF i > Len(map) THEN acc
    ELSE
      LET symOffset == map[i]
          rec == ParseSymbolRecord(Drop(data, symOffset))
          sym == ParsePublicSym32(rec.Data)
      IN  IF \/ symOffset + 10 > Len(data)
             \/ rec.err # NoErr
             \/ rec.Kind # S_PUB32
             \/ sym.err # NoErr
          THEN AddressEntries(map, data, i + 1, acc)
          ELSE AddressEntries(map, data, i + 1,
                   Append(acc, [Section |-> sym.Segment, Offset |-> sym.Offset,
                                SymOffset |-> symOffset]))

\* the less function NewAddressIndex sorts with
AddressLess(a, b) ==
    IF a.Section # b.Section THEN a.Section < b.Section ELSE a.Offset < b.Offset

\* what sort.Slice may leave: the orders of es in which no entry is less than
\* one before it (entries that compare equal stand in any order)
SortedOrders(es) ==
    LET n == Len(es)
        perms == { f \in [1..n -> 1..n] : \A i, j \in 1..n : i # j => f[i] # f[j] }
    IN  { [i \in 1..n |-> es[f[i]]] : f \in
            { g \in perms : \A i \in 1..(n - 1) : ~AddressLess(es[g[i + 1]], es[g[i]]) } }

\* sort.Search(j - i, f) over entries, f as FindByAddress passes it
RECURSIVE SearchAddress(_, _, _, _, _)
SearchAddress(entries, section, offset, i, j) ==
    IF ~(i < j) THEN i
    ELSE
      LET h == (i + j) \div 2
          e == entries[h + 1]
          f == IF e.Section # section THEN e.Section > section ELSE e.Offset >= offset
      IN  IF ~f THEN SearchAddress(entries, section, offset, h + 1, j)
          ELSE SearchAddress(entries, section, offset, i, h)

NotFound == [symOffset |-> 0, exact |-> FALSE, found |-> FALSE]

\* AddressIndex.FindByAddress returning the entry before the address without
\* comparing its section (a variant of FindByAddress)
FindByAddress_AnySection(entries, section, offset) ==
    IF Len(entries) = 0 THEN NotFound
    ELSE
      LET i == SearchAddress(entries, section, offset, 0, Len(entries))
      IN  IF i < Len(entries) /\ entries[i + 1].Section = section
             /\ entries[i + 1].Offset = offset
          THEN [symOffset |-> entries[i + 1].SymOffset, exact |-> TRUE, found |-> TRUE]
          ELSE IF i > 0
          THEN [symOffset |-> entries[i].SymOffset, exact |-> FALSE, found |-> TRUE]
          ELSE NotFound

\* AddressIndex.FindByAddress(section, offset): [symOffset, exact, found]
FindByAddress(entries, section, offset) ==
    IF Len(entries) = 0 THEN NotFound
    ELSE
      LET i == SearchAddress(entries, section, offset, 0, Len(entries))
      IN  IF i < Len(entries) /\ entries[i + 1].Section = section
             /\ entries[i + 1].Offset = offset
          THEN [symOffset |-> entries[i + 1].SymOffset, exact |-> TRUE, found |-> TRUE]
          ELSE IF i > 0 /\ entries[i].Section = section
          THEN [symOffset |-> entries[i].SymOffset, exact |-> FALSE, found |-> TRUE]
          ELSE NotFound

----------------------------------------------------------------------------
(* pdb.SymbolTable: lookups by name and by address *)

NoSymbol == [ok |-> FALSE, kind |-> 0, name |-> <<>>, section |-> 0, offset |-> 0]

\* SymbolTable.convertSymbolRecord(rec)
convertSymbolRecord(rec) ==
    LET sym == CASE rec.Kind = S_PUB32 -> ParsePublicSym32(rec.Data)
                 [] rec.Kind \in {S_GPROC32, S_LPROC32, S_GPROC32_ID, S_LPROC32_ID}
                      -> ParseProcSym(rec.Data)
                 [] rec.Kind \in {S_GDATA32, S_LDATA32} -> ParseDataSym(rec.Data)
                 [] rec.Kind = S_UDT -> ParseUDTSym(rec.Data)
                 [] rec.Kind = S_CONSTANT -> ParseConstantSym(rec.Data)
                 [] OTHER -> NoParsedSym("no symbol")
    IN  IF sym.err # NoErr THEN NoSymbol
        ELSE [ok |-> TRUE, kind |-> rec.Kind, name |-> sym.Name,
              section |-> sym.Segment, offset |-> sym.Offset]

\* SymbolTable.parseSymbolAt(offset)
parseSymbolAt(data, offset) ==
    IF offset >= Len(data) THEN NoSymbol
    ELSE LET rec == ParseSymbolRecord(Drop(data, offset))
         IN  IF rec.err # NoErr THEN NoSymbol ELSE convertSymbolRecord(rec)

NoIndex == [built |-> FALSE]

\* SymbolTable.buildNameIndex: the index nameIndexOnce leaves
buildNameIndex(idx, data) == IF idx.built THEN idx ELSE NewNameIndex(data)

\* SymbolTable.buildAddrIndex: the indices addrIndexOnce may leave
buildAddrIndex(idx, map, data) ==
    IF idx.built THEN {idx}
    ELSE { [built |-> TRUE, entries |-> es] :
             es \in SortedOrders(AddressEntries(map, data, 1, <<>>)) }

\* SymbolTable.FindByName(name) on the built index: [offsets, sym, found]
SymbolTable_FindByName(idx, data, name) ==
    LET offsets == NameIndex_FindByName(idx, name)
    IN  IF Len(offsets) = 0
        THEN [offsets |-> offsets, sym |-> NoSymbol, found |-> FALSE]
        ELSE LET sym == parseSymbolAt(data, offsets[1])
             IN  [offsets |-> offsets, sym |-> sym, found |-> sym.ok]

\* SymbolTable.FindSymbolContaining(section, offset) on the built index:
\* [at, sym, found], at being what FindByAddress returned
SymbolTable_FindSymbolContaining(idx, data, section, offset) ==
    LET at == FindByAddress(idx.entries, section, offset)
    IN  IF ~at.found THEN [at |-> at, sym |-> NoSymbol, found |-> FALSE]
        ELSE LET sym == parseSymbolAt(data, at.symOffset)
             IN  [at |-> at, sym |-> sym, found |-> sym.ok]

\* the counting loop of PublicCount from offset on
RECURSIVE PublicCountScan(_, _, _)
PublicCountScan(data, offset, count) ==
    IF ~(offset < Len(data) - 4) THEN count
    ELSE LET rec == ParseSymbolRecord(Drop(data, offset))
         IN  IF rec.err # NoErr THEN count
             ELSE PublicCountScan(data, offset + rec.size,
                                  IF rec.Kind = S_PUB32 THEN count + 1 ELSE count)

\* the collecting loop of loadPublicSymbols from offset on
RECURSIVE loadPublicSymbols(_, _, _)
loadPublicSymbols(data, offset, result) ==
    IF ~(offset < Len(data) - 4) THEN result
    ELSE LET rec == ParseSymbolRecord(Drop(data, offset))
             sym == ParsePublicSym32(rec.Data)
         IN  IF rec.err # NoErr THEN result
             ELSE loadPublicSymbols(data, offset + rec.size,
                      IF rec.Kind = S_PUB32 /\ sym.err = NoErr
                      THEN Append(result, [name |-> sym.Name, section |-> sym.Segment,
                                           offset |-> sym.Offset])
                      ELSE result)

\* SymbolTable.Public() consumed to its end: the symbols yielded from offset on
RECURSIVE SymbolTable_Public(_, _, _)
SymbolTable_Public(data, offset, out) ==
    IF ~(offset < Len(data) - 4) THEN out
    ELSE With(ParseSymbolRecord(Drop(data, offset)),
              LAMBDA rec :
                IF rec.err # NoErr THEN out
                ELSE With(ParsePublicSym32(rec.Data),
                          LAMBDA sym :
                            SymbolTable_Public(data, offset + rec.size,
                                IF rec.Kind = S_PUB32 /\ sym.err = NoErr
                                THEN Append(out, [name |-> sym.Name,
                                                  section |-> sym.Segment,
                                                  offset |-> sym.Offset])
                                ELSE out)))

\* SymbolTable.PublicCached(): st.publicSymbols after publicSymbolsOnce.Do
PublicCached(cached, data) ==
    IF ~cached.nil THEN cached
    ELSE [nil |-> FALSE, list |-> loadPublicSymbols(data, 0, <<>>)]

\* SymbolTable.PublicCount(): the length of the cached list when there is
\* one, the count of the S_PUB32 records otherwise
PublicCount(cached, data) ==
    IF ~cached.nil THEN Len(cached.list) ELSE PublicCountScan(data, 0, 0)

NoSret == [op |-> "none", name |-> <<>>, section |-> 0, offset |-> 0,
           offsets |-> <<>>, at |-> NotFound, sym |-> NoSymbol, found |-> FALSE]

\* no symbol table is in use
SymIdle ==
    /\ symData = <<>>
    /\ symRecs = <<>>
    /\ addrMap = <<>>
    /\ nameIndex = NoIndex
    /\ addrIndex = NoIndex
    /\ sret = NoSret

----------------------------------------------------------------------------
(* tpi.Stream: the TPI/IPI header, the offset index and GetTypeRecord *)

TPIVersionV50 == 19961031
TPIVersionV70 == 19990903
TPIVersionV80 == 20040203
TPIHeaderSize == 56
FirstUserTypeIndex == 4096

ErrInvalidTPIHeader == "tpi.ErrInvalidTPIHeader"
ErrUnsupportedVersion == "tpi.ErrUnsupportedVersion"
ErrTypeIndexOutOfRange == "tpi.ErrTypeIndexOutOfRange"
ErrInvalidTypeRecord == "tpi.ErrInvalidTypeRecord"
ErrTruncatedStream == "tpi: truncated stream"

NoTpiHeader ==
    [Version |-> 0, HeaderSize |-> 0, TypeIndexBegin |-> 0, TypeIndexEnd |-> 0,
     TypeRecordBytes |-> 0]

\* the fields of the TPI header the model keeps, read from the first bytes
TpiHeaderFields(data) ==
    [Version |-> Uint32LE(data, 0),
     HeaderSize |-> Uint32LE(data, 4),
     TypeIndexBegin |-> Uint32LE(data, 8),
     TypeIndexEnd |-> Uint32LE(data, 12),
     TypeRecordBytes |-> Uint32LE(data, 16)]

\* Stream.parseHeader over at least TPIHeaderSize bytes, so that none of its
\* reads runs out of data: [err, Header]
Tpi_parseHeader_AnyVersion(data) ==
    [err |-> NoErr, Header |-> TpiHeaderFields(data)]
Tpi_parseHeader(data) ==
    LET version == Uint32LE(data, 0)
    IN  IF version # TPIVersionV80 /\ version # TPIVersionV70
        THEN [err |-> ErrUnsupportedVersion, Header |-> NoTpiHeader]
        ELSE [err |-> NoErr, Header |-> TpiHeaderFields(data)]

\* the loop of Stream.buildOffsetIndex with the reader at off and the offsets
\* stored so far: [err, recordOffsets]
RECURSIVE BuildOffsetIndexLoop(_, _, _, _, _)
BuildOffsetIndexLoop(raw, off, typeIndex, typeIndexEnd, offsets) ==
    IF ~(Len(raw) - off > 0 /\ typeIndex < typeIndexEnd)
    THEN [err |-> NoErr, recordOffsets |-> offsets]
    ELSE LET stored == (typeIndex :> off) @@ offsets
         IN  IF off + 2 > Len(raw)
             THEN [err |-> ErrUnexpectedEOF, recordOffsets |-> stored]
             ELSE LET recordLen == Uint16LE(raw, off)
                  IN  IF off + 2 + recordLen > Len(raw)
                      THEN [err |-> ErrUnexpectedEOF, recordOffsets |-> stored]
                      ELSE BuildOffsetIndexLoop(raw, off + 2 + recordLen,
                                                typeIndex + 1, typeIndexEnd, stored)

buildOffsetIndex(raw, header) ==
    BuildOffsetIndexLoop(raw, 0, header.TypeIndexBegin, header.TypeIndexEnd, <<>>)

NoTpi ==
    [err |-> "idle", Header |-> NoTpiHeader, rawRecords |-> <<>>,
     recordOffsets |-> <<>>]

\* tpi.ParseStream(data): the Stream, with the error beside it
ParseStream(data) ==
    IF Len(data) < TPIHeaderSize THEN [NoTpi EXCEPT !.err = ErrInvalidTPIHeader]
    ELSE
      LET h == Tpi_parseHeader(data)
          recordStart == h.Header.HeaderSize
          recordEnd == recordStart + h.Header.TypeRecordBytes
      IN  IF h.err # NoErr THEN [NoTpi EXCEPT !.err = h.err]
          ELSE IF recordEnd > Len(data) THEN [NoTpi EXCEPT !.err = ErrTruncatedStream]
          ELSE
            LET raw == SubSeq(data, recordStart + 1, recordEnd)
                ix  == buildOffsetIndex(raw, h.Header)
            IN  IF ix.err # NoErr THEN [NoTpi EXCEPT !.err = ix.err]
                ELSE [err |-> NoErr, Header |-> h.Header, rawRecords |-> raw,
                      recordOffsets |-> ix.recordOffsets]

\* a *TypeRecord: nil, or Kind and Data
NilTypeRecord == [nil |-> TRUE, Kind |-> 0, Data |-> <<>>]

\* Stream.GetTypeRecord(ti) with the typeCache as it stands: [rec, err, cache]
GetTypeRecord(s, cache, ti) ==
    IF ti \in DOMAIN cache THEN [rec |-> cache[ti], err |-> NoErr, cache |-> cache]
    ELSE IF ti < FirstUserTypeIndex
    THEN [rec |-> NilTypeRecord, err |-> NoErr, cache |-> cache]
    ELSE IF ti < s.Header.TypeIndexBegin \/ ti >= s.Header.TypeIndexEnd
    THEN [rec |-> NilTypeRecord, err |-> ErrTypeIndexOutOfRange, cache |-> cache]
    ELSE IF ti \notin DOMAIN s.recordOffsets
    THEN [rec |-> NilTypeRecord, err |-> ErrTypeIndexOutOfRange, cache |-> cache]
    ELSE
      LET data == Drop(s.rawRecords, s.recordOffsets[ti])
      IN  IF Len(data) < 4
          THEN [rec |-> NilTypeRecord, err |-> ErrUnexpectedEOF, cache |-> cache]
          ELSE
            LET recordLen == Uint16LE(data, 0)
                kind == Uint16LE(data, 2)
                dataLen == recordLen - 2
            IN  IF dataLen < 0
                THEN [rec |-> NilTypeRecord, err |-> ErrInvalidTypeRecord, cache |-> cache]
                ELSE IF 4 + dataLen > Len(data)
                THEN [rec |-> NilTypeRecord, err |-> ErrUnexpectedEOF, cache |-> cache]
                ELSE LET record == [nil |-> FALSE, Kind |-> kind,
                                    Data |-> SubSeq(data, 5, 4 + dataLen)]
                     IN  [rec |-> record, err |-> NoErr,
                          cache |-> (ti :> record) @@ cache]

NoTget == [ti |-> 0, rec |-> NilTypeRecord, err |-> "idle"]

----------------------------------------------------------------------------
(* dbi.Stream: the DBI header and the optional debug header substream *)

DBIVersionV41 == 930803
DBIVersionV50 == 19960307
DBIVersionV60 == 19970606
DBIVersionV70 == 19990903
DBIVersionV110 == 20091201
DBIHeaderSize == 64
InvalidStreamIndex == 65535

\* the number of stream indices of an OptionalDbgHeader, and the place of
\* SectionHdrStreamIndex among them
OptionalDbgFields == 11
SectionHdrField == 6

ErrInvalidDBIHeader == "dbi.ErrInvalidDBIHeader"
Dbi_ErrUnsupportedVersion == "dbi.ErrUnsupportedVersion"
Dbi_ErrTruncatedStream == "dbi.ErrTruncatedStream"

NoDbiHeader ==
    [VersionSignature |-> 0, VersionHeader |-> 0, ModInfoSize |-> 0,
     SectionContributionSize |-> 0, SectionMapSize |-> 0, SourceInfoSize |-> 0,
     TypeServerMapSize |-> 0, OptionalDbgHeaderSize |-> 0, ECSubstreamSize |-> 0]

\* Stream.parseHeader of package dbi over at least DBIHeaderSize bytes, so
\* that none of its reads runs out of data: [err, Header]
Dbi_parseHeader(data) ==
    IF Uint32LE(data, 0) # -1
    THEN [err |-> ErrInvalidDBIHeader, Header |-> NoDbiHeader]
    ELSE [err |-> NoErr,
          Header |-> [VersionSignature |-> Uint32LE(data, 0),
                      VersionHeader |-> Uint32LE(data, 4),
                      ModInfoSize |-> Uint32LE(data, 24),
                      SectionContributionSize |-> Uint32LE(data, 28),
                      SectionMapSize |-> Uint32LE(data, 32),
                      SourceInfoSize |-> Uint32LE(data, 36),
                      TypeServerMapSize |-> Uint32LE(data, 40),
                      OptionalDbgHeaderSize |-> Uint32LE(data, 48),
                      ECSubstreamSize |-> Uint32LE(data, 52)]]

\* Stream.parseOptionalDbgHeader(data): the eleven stream indices in order,
\* those the loop does not reach as &OptionalDbgHeader{} made them
parseOptionalDbgHeader(data) ==
    [i \in 1..OptionalDbgFields |->
        IF 2 * i <= Len(data) THEN Uint16LE(data, 2 * (i - 1)) ELSE 0]

NoDbi == [err |-> "idle", Header |-> NoDbiHeader, OptionalDbgStreams |-> <<>>]

\* dbi.ParseStream(data) for a stream without module info, section
\* contributions and section map: the Stream, with the error beside it.
\* OptionalDbgStreams is <<>> for nil.
Dbi_ParseStream(data) ==
    IF Len(data) < DBIHeaderSize THEN [NoDbi EXCEPT !.err = ErrInvalidDBIHeader]
    ELSE
      LET h == Dbi_parseHeader(data)
          hd == h.Header
          srcEnd == DBIHeaderSize + hd.SourceInfoSize
          offset == srcEnd + hd.TypeServerMapSize + hd.ECSubstreamSize
          end == offset + hd.OptionalDbgHeaderSize
      IN  IF h.err # NoErr THEN [NoDbi EXCEPT !.err = h.err]
          ELSE IF hd.SourceInfoSize > 0 /\ srcEnd > Len(data)
          THEN [NoDbi EXCEPT !.err = Dbi_ErrTruncatedStream]
          ELSE IF hd.OptionalDbgHeaderSize > 0 /\ end > Len(data)
          THEN [NoDbi EXCEPT !.err = Dbi_ErrTruncatedStream]
          ELSE [err |-> NoErr, Header |-> hd,
                OptionalDbgStreams |->
                    IF hd.OptionalDbgHeaderSize > 0
                    THEN parseOptionalDbgHeader(SubSeq(data, offset + 1, end))
                    ELSE <<>>]

\* File.loadSectionHeaders on a parsed DBI stream: [err, stream], the error
\* it returns, or the index of the stream it reads the section headers from
loadSectionHeaders(s) ==
    IF s.OptionalDbgStreams = <<>>
    THEN [err |-> "pdb: no optional debug streams", stream |-> 0]
    ELSE IF s.OptionalDbgStreams[SectionHdrField] = InvalidStreamIndex
    THEN [err |-> "pdb: no section header stream", stream |-> 0]
    ELSE [err |-> NoErr, stream |-> s.OptionalDbgStreams[SectionHdrField]]

----------------------------------------------------------------------------
(* pdb.Module: the symbols of a module's stream *)

\* Module.convertSymbol(record)
Module_convertSymbol_ProcOnly(rec) ==
    LET sym == CASE rec.Kind \in {S_GPROC32, S_LPROC32, S_GPROC32_ID, S_LPROC32_ID}
                      -> ParseProcSym(rec.Data)
                 [] OTHER -> NoParsedSym("no symbol")
    IN  IF sym.err # NoErr THEN NoSymbol
        ELSE [ok |-> TRUE, kind |-> rec.Kind, name |-> sym.Name,
              section |-> sym.Segment, offset |-> sym.Offset]
Module_convertSymbol(rec) ==
    LET sym == CASE rec.Kind \in {S_GPROC32, S_LPROC32, S_GPROC32_ID, S_LPROC32_ID}
                      -> ParseProcSym(rec.Data)
                 [] rec.Kind \in {S_GDATA32, S_LDATA32} -> ParseDataSym(rec.Data)
                 [] rec.Kind \in {S_UDT, S_UDT_ST} -> ParseUDTSym(rec.Data)
                 [] rec.Kind \in {S_CONSTANT, S_CONSTANT_ST} -> ParseConstantSym(rec.Data)
                 [] rec.Kind = S_LOCAL -> ParseLocalSym(rec.Data)
                 [] rec.Kind = S_LABEL32 -> ParseLabelSym(rec.Data)
                 [] rec.Kind = S_BLOCK32 -> ParseBlockSym(rec.Data)
                 [] rec.Kind = S_THUNK32 -> ParseThunkSym(rec.Data)
                 [] OTHER -> NoParsedSym("no symbol")
    IN  IF sym.err # NoErr THEN NoSymbol
        ELSE [ok |-> TRUE, kind |-> rec.Kind, name |-> sym.Name,
              section |-> sym.Segment, offset |-> sym.Offset]

\* the loop of Module.parseSymbols over a SymbolIterator at offset: the
\* symbols collected and the number of records parsed
RECURSIVE ParseSymbolsLoop(_, _, _, _)
ParseSymbolsLoop(data, offset, result, n) ==
    IF offset >= Len(data) THEN [symbols |-> result, parsed |-> n]
    ELSE LET rec == ParseSymbolRecord(Drop(data, offset))
             sym == Module_convertSymbol(rec)
         IN  IF rec.err # NoErr THEN [symbols |-> result, parsed |-> n + 1]
             ELSE ParseSymbolsLoop(data, offset + rec.size,
                                   IF sym.ok THEN Append(result, sym) ELSE result, n + 1)

\* the bytes Module.parseSymbols hands to the SymbolIterator, for a stream
\* read into a slice of capacity cap: data[4:], resliced to SymByteSize - 4
\* when it is shorter than that; the reslice panics beyond the capacity, and
\* SymByteSize - 4 is a uint32 that wraps for SymByteSize below 4
SymbolBytes(data, cap, SymByteSize) ==
    LET rest == Drop(data, 4)
        wraps == SymByteSize < 4
        shorter == wraps \/ Len(rest) < SymByteSize - 4
    IN  IF ~shorter THEN [panic |-> FALSE, bytes |-> rest]
        ELSE IF wraps \/ SymByteSize - 4 > cap - 4
        THEN [panic |-> TRUE, bytes |-> <<>>]
        ELSE [panic |-> FALSE,
              bytes |-> rest \o [i \in 1..(SymByteSize - 4 - Len(rest)) |-> 0]]

NoModuleSymbols == [done |-> FALSE, panic |-> FALSE, symbols |-> <<>>, parsed |-> 0]

\* Module.parseSymbols for a module whose stream holds data: what
\* symbolsOnce leaves in m.symbols, and whether the call panicked (the Once
\* is done all the same, m.symbols staying nil)
Module_parseSymbols(data, cap, SymByteSize) ==
    IF Len(data) < 4
    THEN [done |-> TRUE, panic |-> FALSE, symbols |-> <<>>, parsed |-> 0]
    ELSE LET b == SymbolBytes(data, cap, SymByteSize)
             r == ParseSymbolsLoop(b.bytes, 0, <<>>, 0)
         IN  IF b.panic
             THEN [done |-> TRUE, panic |-> TRUE, symbols |-> <<>>, parsed |-> 0]
             ELSE [done |-> TRUE, panic |-> FALSE, symbols |-> r.symbols,
                   parsed |-> r.parsed]

----------------------------------------------------------------------------
(* tpi record parsers and pdb.TypeTable: the members of classes, structs and *)
(* unions.  Strings are sequences of character codes.                        *)

LF_POINTER == 4098
LF_CLASS_ST == 4100
LF_STRUCTURE_ST == 4101
LF_UNION_ST == 4102
LF_FIELDLIST == 4611
LF_BCLASS == 5120
LF_VBCLASS == 5121
LF_IVBCLASS == 5122
LF_INDEX == 5124
LF_VFUNCTAB == 5129
LF_ENUMERATE == 5378
LF_CLASS == 5380
LF_STRUCTURE == 5381
LF_UNION == 5382
LF_MEMBER == 5389
LF_STMEMBER == 5390
LF_METHOD == 5391
LF_NESTTYPE == 5392
LF_ONEMETHOD == 5393

ErrTypeNotFound == "pdb: type not found"

PointerModePointerToDataMember == 2
PointerModePointerToMemberFunction == 3

\* the fields a parser reads one after the other with the Reader at off:
\* u16, u32, a numeric leaf (num) or a NUL-terminated string (str).
\* [err, next, vals]: the values read and where the Reader stands, also
\* after the read that failed.  A numeric leaf of 0x8000 and above stands
\* for a value that follows it; that value is not pictured and reads as 0
RECURSIVE ReadItems(_, _, _, _)
ReadItems(data, off, layout, vals) ==
    IF layout = <<>> THEN [err |-> NoErr, next |-> off, vals |-> vals]
    ELSE
      LET item == Head(layout)
          fail(at) == [err |-> ErrUnexpectedEOF, next |-> at, vals |-> vals]
      IN  CASE item = "u16" ->
                 IF off + 2 > Len(data) THEN fail(off)
                 ELSE ReadItems(data, off + 2, Tail(layout),
                                Append(vals, Uint16LE(data, off)))
            [] item = "u32" ->
                 IF off + 4 > Len(data) THEN fail(off)
                 ELSE ReadItems(data, off + 4, Tail(layout),
                                Append(vals, Uint32LE(data, off)))
            [] item = "num" ->
                 LET v == NumericSize(data, off)
                 IN  IF v.err # NoErr
                     THEN [err |-> v.err, vals |-> vals,
                           next |-> IF off + 2 > Len(data) THEN off ELSE off + 2]
                     ELSE ReadItems(data, off + v.size, Tail(layout),
                                    Append(vals, IF v.size = 2 THEN Uint16LE(data, off)
                                                 ELSE 0))
            [] item = "str" ->
                 LET s == ReadCString(data, off)
                 IN  IF s.err # NoErr THEN fail(Len(data))
                     ELSE ReadItems(data, off + Len(s.s) + 1, Tail(layout),
                                    Append(vals, s.s))

\* ClassProperties.IsForwardRef, ClassProperties.HasUniqueName
IsForwardRef(props) == (props \div 128) % 2 = 1
HasUniqueName(props) == (props \div 512) % 2 = 1

\* the error of reading the unique name that follows the name at off, when
\* the properties say there is one
UniqueNameErr(data, off, props) ==
    IF HasUniqueName(props) THEN ReadItems(data, off, <<"str">>, <<>>).err ELSE NoErr

\* ParseClassRecord(data): [err, Name, FieldList, Properties]
ParseClassRecord(data) ==
    With(ReadItems(data, 0, <<"u16", "u16", "u32", "u32", "u32", "num", "str">>, <<>>),
         LAMBDA r :
           IF r.err # NoErr
           THEN [err |-> r.err, Name |-> <<>>, FieldList |-> 0, Properties |-> 0]
           ELSE With(UniqueNameErr(data, r.next, r.vals[2]),
                     LAMBDA uerr :
                       IF uerr # NoErr
                       THEN [err |-> uerr, Name |-> <<>>, FieldList |-> 0,
                             Properties |-> 0]
                       ELSE [err |-> NoErr, Name |-> r.vals[7],
                             FieldList |-> r.vals[3], Properties |-> r.vals[2]]))

\* ParseUnionRecord(data): [err, Name, FieldList, Properties]
ParseUnionRecord(data) ==
    With(ReadItems(data, 0, <<"u16", "u16", "u32", "num", "str">>, <<>>),
         LAMBDA r :
           IF r.err # NoErr
           THEN [err |-> r.err, Name |-> <<>>, FieldList |-> 0, Properties |-> 0]
           ELSE With(UniqueNameErr(data, r.next, r.vals[2]),
                     LAMBDA uerr :
                       IF uerr # NoErr
                       THEN [err |-> uerr, Name |-> <<>>, FieldList |-> 0,
                             Properties |-> 0]
                       ELSE [err |-> NoErr, Name |-> r.vals[5],
                             FieldList |-> r.vals[3], Properties |-> r.vals[2]]))

\* a field of a field list: MemberRecord, StaticMemberRecord, BaseClassRecord
\* and VirtualBaseClassRecord keep their kind (LF_IVBCLASS reads as a
\* VirtualBaseClassRecord); the other records are of no use to the TypeTable
\* and keep only their kind
Field(kind, name, type, offset, access) ==
    [kind |-> kind, Name |-> name, Type |-> type, Offset |-> offset,
     Access |-> access]

\* what the parser of a field of this kind reads, in order; a one-method
\* record holds a vtable offset when its method property is 4 or 6
FieldLayout(kind, data, off) ==
    CASE kind = LF_MEMBER -> <<"u16", "u32", "num", "str">>
      [] kind \in {LF_STMEMBER, LF_METHOD, LF_NESTTYPE} -> <<"u16", "u32", "str">>
      [] kind = LF_ONEMETHOD ->
           IF off + 2 <= Len(data) /\ (Uint16LE(data, off) \div 4) % 8 \in {4, 6}
           THEN <<"u16", "u32", "u32", "str">>
           ELSE <<"u16", "u32", "str">>
      [] kind = LF_BCLASS -> <<"u16", "u32", "num">>
      [] kind \in {LF_VBCLASS, LF_IVBCLASS} -> <<"u16", "u32", "u32", "num", "num">>
      [] kind = LF_ENUMERATE -> <<"u16", "num", "str">>
      [] kind = LF_VFUNCTAB -> <<"u16", "u32">>
      [] kind = LF_INDEX -> <<"u32">>
      [] OTHER -> <<>>

\* the record the parser of a field of this kind builds from the values v
FieldRecord(kind, v) ==
    CASE kind = LF_MEMBER -> Field(LF_MEMBER, v[4], v[2], v[3], v[1] % 4)
      [] kind = LF_STMEMBER -> Field(LF_STMEMBER, v[3], v[2], 0, v[1] % 4)
      [] kind = LF_METHOD -> Field(LF_METHOD, v[3], 0, 0, 0)
      [] kind = LF_ONEMETHOD -> Field(LF_ONEMETHOD, v[Len(v)], 0, 0, 0)
      [] kind = LF_NESTTYPE -> Field(LF_NESTTYPE, v[3], v[2], 0, 0)
      [] kind = LF_BCLASS -> Field(LF_BCLASS, <<>>, v[2], v[3], v[1] % 4)
      [] kind \in {LF_VBCLASS, LF_IVBCLASS} -> Field(LF_VBCLASS, <<>>, v[2], 0, v[1] % 4)
      [] kind = LF_ENUMERATE -> Field(LF_ENUMERATE, v[3], 0, 0, 0)
      [] kind = LF_VFUNCTAB -> Field(LF_VFUNCTAB, <<>>, v[2], 0, 0)
      [] OTHER -> Field(0, <<>>, 0, 0, 0)

FieldKinds == {LF_MEMBER, LF_STMEMBER, LF_METHOD, LF_ONEMETHOD, LF_NESTTYPE,
               LF_BCLASS, LF_VBCLASS, LF_IVBCLASS, LF_ENUMERATE, LF_VFUNCTAB}

\* parseFieldListMember(kind, r) with the Reader at off: [err, nil, rec, next].
\* LF_INDEX skips its type index and gives nil, as the kinds do that have no
\* parser
parseFieldListMember(kind, data, off) ==
    With(ReadItems(data, off, FieldLayout(kind, data, off), <<>>),
         LAMBDA r :
           IF kind \in FieldKinds
           THEN [err |-> r.err, nil |-> FALSE, next |-> r.next,
                 rec |-> IF r.err = NoErr THEN FieldRecord(kind, r.vals)
                         ELSE Field(0, <<>>, 0, 0, 0)]
           ELSE [err |-> NoErr, nil |-> TRUE, rec |-> Field(0, <<>>, 0, 0, 0),
                 next |-> r.next])

\* the first offset at or after off that holds no padding byte (0xF0 and above)
RECURSIVE SkipPadding(_, _)
SkipPadding(data, off) ==
    IF off < Len(data) /\ data[off + 1] >= 240 THEN SkipPadding(data, off + 1)
    ELSE off

\* the loop of ParseFieldListRecord with the Reader at off
RECURSIVE FieldListLoop(_, _, _)
FieldListLoop(data, off, fields) ==
    With(SkipPadding(data, off),
         LAMBDA at :
           IF off >= Len(data) \/ Len(data) - at < 2 THEN fields
           ELSE With(parseFieldListMember(Uint16LE(data, at), data, at + 2),
                     LAMBDA m :
                       FieldListLoop(data, m.next,
                                     IF m.err = NoErr /\ ~m.nil
                                     THEN Append(fields, m.rec) ELSE fields)))

\* ParseFieldListRecord(data): the Members (it returns no error)
ParseFieldListRecord(data) == FieldListLoop(data, 0, <<>>)

ClassKinds == {LF_CLASS, LF_CLASS_ST, LF_STRUCTURE, LF_STRUCTURE_ST}
UnionKinds == {LF_UNION, LF_UNION_ST}

\* the type record of ti, as Stream.GetTypeRecord returns it with the
\* typeCache as it stands
TypeRecordOf(s, cache, ti) == GetTypeRecord(s, cache, ti)

\* the typeCache of the Stream after the type indices tis have been fetched
RECURSIVE CacheAfter(_, _, _)
CacheAfter(s, cache, tis) ==
    IF tis = <<>> THEN cache
    ELSE With(GetTypeRecord(s, cache, Head(tis)).cache,
              LAMBDA c : CacheAfter(s, c, Tail(tis)))

\* a Member
Member(name, type, offset, access, ownerType, ownerName, isStatic) ==
    [Name |-> name, Type |-> type, Offset |-> offset, Access |-> access,
     OwnerType |-> ownerType, OwnerName |-> ownerName, IsStatic |-> isStatic]

\* the class, struct or union record of ti: [err, Name, FieldList, Properties]
ClassLike(record) ==
    IF record.Kind \in ClassKinds THEN ParseClassRecord(record.Data)
    ELSE ParseUnionRecord(record.Data)

\* the loop of GetMembers over fieldList.Members
RECURSIVE GetMembersLoop(_, _, _, _)
GetMembersLoop(fields, typeIndex, ownerName, acc) ==
    IF fields = <<>> THEN acc
    ELSE
      LET mem == Head(fields)
          out == CASE mem.kind = LF_MEMBER ->
                        Append(acc, Member(mem.Name, mem.Type, mem.Offset, mem.Access,
                                           typeIndex, ownerName, FALSE))
                   [] mem.kind = LF_STMEMBER ->
                        Append(acc, Member(mem.Name, mem.Type, 0, mem.Access,
                                           typeIndex, ownerName, FALSE))
                   [] OTHER -> acc
      IN  GetMembersLoop(Tail(fields), typeIndex, ownerName, out)

\* GetMembers once the record of typeIndex is parsed as rec: the field list
\* is fetched and its data members collected
MembersOfFieldList(s, cache, typeIndex, rec) ==
    With(TypeRecordOf(s, cache, rec.FieldList),
         LAMBDA fl :
           IF fl.err # NoErr \/ fl.rec.nil \/ fl.rec.Kind # LF_FIELDLIST
           THEN [members |-> <<>>, err |-> NoErr,
                 fetched |-> <<typeIndex, rec.FieldList>>]
           ELSE With(ParseFieldListRecord(fl.rec.Data),
                     LAMBDA fields :
                       [members |-> GetMembersLoop(fields, typeIndex, rec.Name, <<>>),
                        err |-> NoErr, fetched |-> <<typeIndex, rec.FieldList>>]))

\* TypeTable.GetMembers(typeIndex): [members, err, fetched], fetched the type
\* indices it asked the Stream for
GetMembers(s, cache, typeIndex) ==
    With(TypeRecordOf(s, cache, typeIndex),
         LAMBDA got :
           IF got.err # NoErr \/ got.rec.nil
           THEN [members |-> <<>>, err |-> ErrTypeNotFound, fetched |-> <<typeIndex>>]
           ELSE IF got.rec.Kind \notin ClassKinds \cup UnionKinds
           THEN [members |-> <<>>, err |-> ErrTypeNotFound, fetched |-> <<typeIndex>>]
           ELSE With(ClassLike(got.rec),
                     LAMBDA rec :
                       IF rec.err # NoErr
                       THEN [members |-> <<>>, err |-> rec.err,
                             fetched |-> <<typeIndex>>]
                       ELSE IF rec.FieldList = 0
                       THEN [members |-> <<>>, err |-> NoErr,
                             fetched |-> <<typeIndex>>]
                       ELSE MembersOfFieldList(s, cache, typeIndex, rec)))

\* "::"
Scope == <<58, 58>>

\* strings.Index(s, "::"): the offset of the first "::" in s, -1 without one
RECURSIVE IndexFrom(_, _)
IndexFrom(s, i) ==
    IF i + 2 > Len(s) THEN -1
    ELSE IF SubSeq(s, i + 1, i + 2) = Scope THEN i
    ELSE IndexFrom(s, i + 1)
Index(s) == IndexFrom(s, 0)

NoMemberIndex == [built |-> FALSE, members |-> <<>>, inheritance |-> <<>>]

\* the first pass of buildMemberIndex at the record got of type index ti:
\* [typeNames, classes]
CollectClass(got, ti, typeNames, classes) ==
    IF got.err # NoErr \/ got.rec.nil \/ got.rec.Kind \notin ClassKinds \cup UnionKinds
    THEN [typeNames |-> typeNames, classes |-> classes]
    ELSE With(ClassLike(got.rec),
              LAMBDA rec :
                IF rec.err # NoErr THEN [typeNames |-> typeNames, classes |-> classes]
                ELSE [typeNames |-> (ti :> rec.Name) @@ typeNames,
                      classes |-> IF ~IsForwardRef(rec.Properties) /\ rec.FieldList # 0
                                  THEN Append(classes,
                                              [name |-> rec.Name,
                                               fieldListIndex |-> rec.FieldList,
                                               typeIndex |-> ti])
                                  ELSE classes])

\* the first pass of buildMemberIndex over the type indices from ti to
\* end - 1: [typeNames, classes]
RECURSIVE CollectClasses(_, _, _, _, _, _)
CollectClasses(s, cache, ti, end, typeNames, classes) ==
    IF ti >= end THEN [typeNames |-> typeNames, classes |-> classes]
    ELSE With(CollectClass(TypeRecordOf(s, cache, ti), ti, typeNames, classes),
              LAMBDA c : CollectClasses(s, cache, ti + 1, end, c.typeNames, c.classes))

\* typeNames[ti] of a Go map: the empty string for a missing key
NameOfType(typeNames, ti) == IF ti \in DOMAIN typeNames THEN typeNames[ti] ELSE <<>>

\* what one field mem of the class cls adds in the second pass: a member, or
\* an inheritance edge [class, base]
IndexField(mem, cls, typeNames, idx) ==
    CASE mem.kind = LF_MEMBER ->
           [idx EXCEPT !.members =
              Append(@, Member(mem.Name, mem.Type, mem.Offset, mem.Access,
                               cls.typeIndex, cls.name, FALSE))]
      [] mem.kind = LF_STMEMBER ->
           [idx EXCEPT !.members =
              Append(@, Member(mem.Name, mem.Type, 0, mem.Access,
                               cls.typeIndex, cls.name, TRUE))]
      [] mem.kind \in {LF_BCLASS, LF_VBCLASS}
           /\ NameOfType(typeNames, mem.Type) # <<>> ->
           [idx EXCEPT !.inheritance =
              Append(@, [class |-> cls.name, base |-> NameOfType(typeNames, mem.Type)])]
      [] OTHER -> idx

\* the loop over the fields of one class in the second pass, in the order of
\* the field list
RECURSIVE IndexFields(_, _, _, _)
IndexFields(fields, cls, typeNames, idx) ==
    IF fields = <<>> THEN idx
    ELSE With(IndexField(Head(fields), cls, typeNames, idx),
              LAMBDA out : IndexFields(Tail(fields), cls, typeNames, out))

\* the second pass at the class cls, fl being the record of its field list
IndexClass(fl, cls, typeNames, idx) ==
    IF fl.err # NoErr \/ fl.rec.nil \/ fl.rec.Kind # LF_FIELDLIST THEN idx
    ELSE With(ParseFieldListRecord(fl.rec.Data),
              LAMBDA fields : IndexFields(fields, cls, typeNames, idx))

\* the second pass of buildMemberIndex over the classes collected
RECURSIVE IndexClasses(_, _, _, _, _)
IndexClasses(s, cache, classes, typeNames, idx) ==
    IF classes = <<>> THEN idx
    ELSE With(IndexClass(TypeRecordOf(s, cache, Head(classes).fieldListIndex),
                         Head(classes), typeNames, idx),
              LAMBDA out : IndexClasses(s, cache, Tail(classes), typeNames, out))

\* TypeTable.buildMemberIndex: what memberIndexOnce leaves in tt.memberIndex.
\* byName[n] and byQualifiedName[q] are the members with that name, and with
\* that OwnerName::Name, in the order they were added
buildMemberIndex(s, cache, idx) ==
    IF idx.built THEN idx
    ELSE With(CollectClasses(s, cache, s.Header.TypeIndexBegin, s.Header.TypeIndexEnd,
                             <<>>, <<>>),
              LAMBDA c :
                IndexClasses(s, cache, c.classes, c.typeNames,
                             [built |-> TRUE, members |-> <<>>, inheritance |-> <<>>]))

byName(idx, name) == SelectSeq(idx.members, LAMBDA m : m.Name = name)

byQualifiedName(idx, q) ==
    SelectSeq(idx.members, LAMBDA m : m.OwnerName \o Scope \o m.Name = q)

\* inheritance[class]: the base class names appended for it, in order
BaseClasses(idx, class) ==
    LET es == SelectSeq(idx.inheritance, LAMBDA p : p.class = class)
    IN  [i \in 1..Len(es) |-> es[i].base]

\* the bases of current that are not in result, each once, in order
RECURSIVE NewBases(_, _, _)
NewBases(bases, result, acc) ==
    IF bases = <<>> THEN acc
    ELSE LET b == Head(bases)
             visited == \E i \in 1..Len(result \o acc) : (result \o acc)[i] = b
         IN  NewBases(Tail(bases), result, IF visited THEN acc ELSE Append(acc, b))

\* the breadth-first loop of getInheritanceChain
RECURSIVE ChainLoop(_, _, _)
ChainLoop(idx, result, queue) ==
    IF queue = <<>> THEN result
    ELSE LET fresh == NewBases(BaseClasses(idx, Head(queue)), result, <<>>)
         IN  ChainLoop(idx, result \o fresh, Tail(queue) \o fresh)

\* TypeTable.getInheritanceChain(className)
getInheritanceChain(idx, className) == ChainLoop(idx, <<className>>, <<className>>)

\* the members yielded for the classes of the chain, a member whose
\* OwnerName::Name was seen before being passed over
RECURSIVE YieldQualified(_, _, _, _, _)
YieldQualified(idx, classes, memberName, seen, acc) ==
    IF classes = <<>> THEN acc
    ELSE
      LET hits == byQualifiedName(idx, Head(classes) \o Scope \o memberName)
          key(m) == m.OwnerName \o Scope \o m.Name
          keep == SelectSeq([i \in 1..Len(hits) |-> [i |-> i, m |-> hits[i]]],
                            LAMBDA h : /\ key(h.m) \notin seen
                                       /\ \A j \in 1..(h.i - 1) : key(hits[j]) # key(h.m))
      IN  YieldQualified(idx, Tail(classes), memberName,
                         seen \cup {key(hits[i]) : i \in 1..Len(hits)},
                         acc \o [i \in 1..Len(keep) |-> keep[i].m])

\* TypeTable.FindMembers(name), consumed to its end: the members yielded
FindMembers(idx, name) ==
    LET at == Index(name)
    IN  IF at > 0
        THEN YieldQualified(idx, getInheritanceChain(idx, SubSeq(name, 1, at)),
                            SubSeq(name, at + 3, Len(name)), {}, <<>>)
        ELSE byName(idx, name)

----------------------------------------------------------------------------
(* stream.Reader: a cursor over a byte slice.  A call gives [r, err, val]:   *)
(* the Reader after the call, the error and the value returned.             *)

NewReader(data) == [data |-> data, offset |-> 0]

\* Reader.Remaining
Reader_Remaining(r) ==
    IF r.offset >= Len(r.data) THEN 0 ELSE Len(r.data) - r.offset

\* Reader.Skip(n)
Reader_Skip(r, n) ==
    IF r.offset + n > Len(r.data) THEN [r |-> r, err |-> ErrUnexpectedEOF, val |-> <<>>]
    ELSE [r |-> [r EXCEPT !.offset = @ + n], err |-> NoErr, val |-> <<>>]

\* Reader.Align(alignment)
Reader_Align(r, alignment) ==
    IF alignment <= 1 THEN [r |-> r, err |-> NoErr, val |-> <<>>]
    ELSE IF r.offset % alignment # 0
    THEN [r |-> [r EXCEPT !.offset = @ + alignment - (r.offset % alignment)],
          err |-> NoErr, val |-> <<>>]
    ELSE [r |-> r, err |-> NoErr, val |-> <<>>]

\* Reader.ReadBytes(n) and Reader.ReadBytesRef(n), n >= 0: the bytes
Reader_ReadBytes(r, n) ==
    IF r.offset + n > Len(r.data) THEN [r |-> r, err |-> ErrUnexpectedEOF, val |-> <<>>]
    ELSE [r |-> [r EXCEPT !.offset = @ + n], err |-> NoErr,
          val |-> SubSeq(r.data, r.offset + 1, r.offset + n)]

\* Reader.ReadU8, ReadU16, ReadU32, ReadU64 (width 1, 2, 4, 8): the bytes of
\* the integer, lowest first
Reader_ReadFixed(r, width) ==
    IF (IF width = 1 THEN r.offset >= Len(r.data) ELSE r.offset + width > Len(r.data))
    THEN [r |-> r, err |-> ErrUnexpectedEOF, val |-> <<>>]
    ELSE [r |-> [r EXCEPT !.offset = @ + width], err |-> NoErr,
          val |-> SubSeq(r.data, r.offset + 1, r.offset + width)]

\* the loop of Reader.ReadCString with the cursor at offset
RECURSIVE ReadCStringLoop(_, _, _)
ReadCStringLoop(r, start, offset) ==
    IF ~(offset < Len(r.data))
    THEN [r |-> [r EXCEPT !.offset = offset], err |-> ErrUnexpectedEOF, val |-> <<>>]
    ELSE IF r.data[offset + 1] = 0
    THEN [r |-> [r EXCEPT !.offset = offset + 1], err |-> NoErr,
          val |-> SubSeq(r.data, start + 1, offset)]
    ELSE ReadCStringLoop(r, start, offset + 1)

\* Reader.ReadCString
Reader_ReadCString(r) == ReadCStringLoop(r, r.offset, r.offset)

\* the number of bytes that follow a numeric leaf of 0x8000 and above: LF_CHAR,
\* LF_SHORT, LF_USHORT, LF_LONG, LF_ULONG, LF_QUADWORD, LF_UQUADWORD; 0 for a
\* leaf ReadNumeric does not know
NumericWidth(leaf) ==
    CASE leaf = 32768 -> 1
      [] leaf \in {32769, 32770} -> 2
      [] leaf \in {32771, 32772} -> 4
      [] leaf \in {32777, 32778} -> 8
      [] OTHER -> 0

\* Reader.ReadNumeric: the leaf when it is below 0x8000, the bytes of the
\* value that follows it otherwise
Reader_ReadNumeric(r) ==
    With(Reader_ReadFixed(r, 2),
         LAMBDA leaf :
           IF leaf.err # NoErr THEN [r |-> leaf.r, err |-> leaf.err, val |-> <<>>]
           ELSE IF Uint16LE(leaf.val, 0) < 32768 THEN leaf
           ELSE IF NumericWidth(Uint16LE(leaf.val, 0)) = 0
           THEN [r |-> leaf.r, err |-> ErrInvalidNumeric, val |-> <<>>]
           ELSE Reader_ReadFixed(leaf.r, NumericWidth(Uint16LE(leaf.val, 0))))

\* Reader.SubReader(length), length >= 0: val is the data of the new Reader
Reader_SubReader(r, length) ==
    IF r.offset + length > Len(r.data)
    THEN [r |-> r, err |-> ErrUnexpectedEOF, val |-> <<>>]
    ELSE [r |-> [r EXCEPT !.offset = @ + length], err |-> NoErr,
          val |-> NewReader(SubSeq(r.data, r.offset + 1, r.offset + length)).data]

----------------------------------------------------------------------------
(* msf.File: the lazily loaded directory and the methods built on it *)

\* what f.Directory() leaves in f.directory and f.dirErr: the stored outcome
\* once dirOnce has run, the outcome of ReadDirectory when it runs now
Directory(f, data, done, dir, err) ==
    IF done THEN [dir |-> dir, err |-> err, reads |-> 0]
    ELSE ReadDirectory(f.superBlock, data)

\* File.NumStreams on the outcome d of f.Directory(): [val, err]
File_NumStreams(d) ==
    IF d.err # NoErr THEN [val |-> 0, err |-> d.err]
    ELSE [val |-> d.dir.NumStreams, err |-> NoErr]

\* File.StreamSize
File_StreamSize(d, streamIndex) ==
    IF d.err # NoErr THEN [val |-> 0, err |-> d.err]
    ELSE [val |-> StreamSize(d.dir, streamIndex), err |-> NoErr]

\* File.StreamExists
File_StreamExists(d, streamIndex) ==
    IF d.err # NoErr THEN [ok |-> FALSE, err |-> d.err]
    ELSE [ok |-> StreamExists(d.dir, streamIndex), err |-> NoErr]

NoStream == NewStream([size |-> 0, bytes |-> <<>>], <<>>, 0, 0)

\* File.OpenStream: [stream, err]
File_OpenStream(f, data, d, streamIndex) ==
    IF d.err # NoErr THEN [stream |-> NoStream, err |-> d.err]
    ELSE IF ~ULt(streamIndex, d.dir.NumStreams)
    THEN [stream |-> NoStream, err |-> ErrInvalidStreamIndex]
    ELSE IF d.dir.StreamSizes[streamIndex + 1] = NilStreamSize
    THEN [stream |-> NoStream, err |-> "stream is nil"]
    ELSE [stream |-> NewStream(data, d.dir.StreamBlocks[streamIndex + 1],
                               f.superBlock.BlockSize,
                               d.dir.StreamSizes[streamIndex + 1]),
          err |-> NoErr]

\* File.ReadStream: [bytes, err, reads]
File_ReadStream(f, data, d, streamIndex) ==
    LET o == File_OpenStream(f, data, d, streamIndex)
    IN  IF o.err # NoErr THEN [bytes |-> <<>>, err |-> o.err, reads |-> 0]
        ELSE LET b == Stream_Bytes(o.stream)
             IN  [bytes |-> b.bytes, err |-> b.err, reads |-> b.reads]

NoFret == [op |-> "none", arg |-> 0, val |-> 0, ok |-> FALSE, err |-> NoErr,
           bytes |-> <<>>]

\* no file is in use
FileIdle ==
    /\ src = [size |-> 0, bytes |-> <<>>]
    /\ srcReads = 0
    /\ msf = NoFile
    /\ openErr = "idle"
    /\ dirOnce = FALSE
    /\ directory = NoDirectory
    /\ dirErr = NoErr
    /\ fret = NoFret

\* no stream is in use
StreamIdle ==
    /\ stream = NoStream
    /\ ret = [op |-> "none", plen |-> 0, off |-> 0, pos0 |-> 0,
              n |-> 0, err |-> NoErr, bytes |-> <<>>]
    /\ seq = [clean |-> TRUE, bytes |-> <<>>, eof |-> FALSE]

\* no concurrent callers are in play
ConIdle ==
    /\ once = <<>>
    /\ cell = <<>>
    /\ builds = <<>>
    /\ pubSyms = [ptr |-> 0, len |-> 0]
    /\ thr = <<>>
    /\ cret = <<>>
    /\ returned = <<>>
    /\ failing = {}
    /\ raced = FALSE
    /\ calls = 0

\* no TPI stream is in use
TpiIdle ==
    /\ tpiData = <<>>
    /\ tpi = NoTpi
    /\ typeCache = <<>>
    /\ tget = NoTget
    /\ fetched = <<>>

\* no DBI stream is in use
DbiIdle ==
    /\ dbiData = <<>>
    /\ dbi = NoDbi
    /\ dret = [err |-> "idle", stream |-> 0]

NoIter == [op |-> "none", stage |-> "idle", offset |-> 0, mod |-> 0, k |-> 0,
           name |-> <<>>, offsets |-> <<>>, after |-> FALSE]

NoStop == [is |-> FALSE, at |-> 0, parsed |-> 0]

\* no iterator is in use
IterIdle ==
    /\ mods = [err |-> FALSE, list |-> <<>>]
    /\ modSyms = <<>>
    /\ it = NoIter
    /\ yielded = <<>>
    /\ parsed = 0
    /\ stopped = NoStop

NoMret == [op |-> "none", arg |-> 0, members |-> <<>>, err |-> NoErr]

\* no TypeTable is in use
TypesIdle ==
    /\ decl = <<>>
    /\ memberIndex = NoMemberIndex
    /\ mret = NoMret

NoPret == [op |-> "none", count |-> 0, list |-> <<>>, counts |-> {}]

PubIdle ==
    /\ publicSymbols = [nil |-> TRUE, list |-> <<>>]
    /\ pret = NoPret

NoRret == [op |-> "none", arg |-> 0, from |-> 0, err |-> NoErr, val |-> <<>>]

ReaderIdle ==
    /\ reader = [data |-> <<>>, offset |-> 0]
    /\ rret = NoRret

\* tpi.ParsePointerRecord(data): the error only
ParsePointerRecord(data) ==
    With(Reader_ReadFixed(NewReader(data), 4), LAMBDA refType :
      IF refType.err # NoErr THEN refType.err
      ELSE With(Reader_ReadFixed(refType.r, 4), LAMBDA attrs :
        IF attrs.err # NoErr THEN attrs.err
        ELSE With((Uint32LE(attrs.val, 0) \div 32) % 8, LAMBDA mode :
          IF mode = PointerModePointerToDataMember
               \/ mode = PointerModePointerToMemberFunction
          THEN Reader_ReadFixed(attrs.r, 4).err
          ELSE NoErr)))

\* TypeTable.parseTypeRecord(index, record): the error, and the kind of Type
\* it allocates
parseTypeRecord(index, record) ==
    IF record.Kind = LF_POINTER
    THEN With(ParsePointerRecord(record.Data), LAMBDA err :
           [err |-> err, kind |-> IF err = NoErr THEN "PointerType" ELSE "nil"])
    ELSE [err |-> NoErr, kind |-> "genericType"]

\* TypeTable.ByIndex(index) after its Load missed, up to the Store: the error
\* it returns or the kind of Type it has allocated, and the Stream's cache
ByIndex_Decode(s, cache, index) ==
    IF index < FirstUserTypeIndex
    THEN [err |-> NoErr, kind |-> "PrimitiveType", cache |-> cache]
    ELSE With(GetTypeRecord(s, cache, index), LAMBDA g :
           IF g.err # NoErr THEN [err |-> g.err, kind |-> "nil", cache |-> g.cache]
           ELSE IF g.rec.nil
           THEN [err |-> ErrTypeNotFound, kind |-> "nil", cache |-> g.cache]
           ELSE With(parseTypeRecord(index, g.rec), LAMBDA p :
                  [err |-> p.err, kind |-> p.kind, cache |-> g.cache]))

ErrFileClosed == "pdb: file is closed"
ErrOsClosed == "os: file already closed"

\* the ReadAt of the byte source: an os.File that has been closed fails
Source_ReadAt(s) == IF s.closed THEN ErrOsClosed ELSE NoErr

\* msf.File.Close(): the error, and the byte source afterwards
Msf_Close(f, s) ==
    IF f.closer THEN [err |-> NoErr, source |-> [s EXCEPT !.closed = TRUE]]
    ELSE [err |-> NoErr, source |-> s]

\* pdb.File.Close(): the File, the error, and the byte source afterwards
File_Close(f, s) ==
    IF f.closed THEN [file |-> f, err |-> NoErr, source |-> s]
    ELSE With(Msf_Close(f, s), LAMBDA c :
           [file |-> [f EXCEPT !.closed = TRUE], err |-> c.err, source |-> c.source])

NotLoaded == [done |-> FALSE, err |-> NoErr]

\* msf.File.Directory(): the error, the lazily loaded structures afterwards,
\* and the ReadAt calls made on the byte source
Msf_Directory(s, lz) ==
    IF lz["directory"].done
    THEN [err |-> lz["directory"].err, lazy |-> lz, reads |-> 0]
    ELSE [err |-> Source_ReadAt(s),
          lazy |-> [lz EXCEPT !["directory"] = [done |-> TRUE, err |-> Source_ReadAt(s)]],
          reads |-> 1]

\* msf.File.ReadStream(streamIndex): OpenStream, then Stream.Bytes
Msf_ReadStream(s, lz) ==
    With(Msf_Directory(s, lz), LAMBDA d :
      IF d.err # NoErr THEN d
      ELSE [err |-> Source_ReadAt(s), lazy |-> d.lazy, reads |-> d.reads + 1])

\* the error of the getter of c when its stream could not be read
ReadFailure(c) ==
    CASE c = "tpiStream" -> "pdb: failed to read TPI stream"
      [] c = "ipiStream" -> "pdb: failed to read IPI stream"
      [] c = "dbiStream" -> "pdb: failed to read DBI stream"

\* what the function of the getter's once.Do stores for c
File_load(c, s, lz) ==
    With(Msf_Directory(s, lz), LAMBDA x :
      IF c = "ipiStream" /\ x.err # NoErr
      THEN [err |-> "pdb: IPI stream not found", lazy |-> x.lazy, reads |-> x.reads]
      ELSE With(Msf_ReadStream(s, x.lazy), LAMBDA r :
             [err |-> IF r.err # NoErr THEN ReadFailure(c)
                      ELSE IF c \in s.corrupt THEN "parse error" ELSE NoErr,
              lazy |-> r.lazy, reads |-> x.reads + r.reads]))

\* File.getTPI(), getIPI(), getDBI(): the error, the lazily loaded structures
\* afterwards, and the ReadAt calls made on the byte source
File_get(c, s, lz) ==
    IF lz[c].done THEN [err |-> lz[c].err, lazy |-> lz, reads |-> 0]
    ELSE With(File_load(c, s, lz), LAMBDA l :
           [err |-> l.err, lazy |-> [l.lazy EXCEPT ![c] = [done |-> TRUE, err |-> l.err]],
            reads |-> l.reads])

\* a thread outside of ByIndex
NoLookup == [stage |-> "idle", index |-> 0, typ |-> 0]

CacheIdle ==
    /\ ttTypeCache = <<>>
    /\ lookup = <<>>
    /\ allocated = <<>>
    /\ given = {}
    /\ replaced = {}
    /\ overlapped = {}

NoPcall == [op |-> "none", err |-> NoErr, closed |-> FALSE, cached |-> FALSE,
            reads |-> 0]

CloseIdle ==
    /\ pdb = [closed |-> FALSE, closer |-> FALSE]
    /\ source = [closed |-> FALSE, corrupt |-> {}]
    /\ lazy = <<>>
    /\ lateReads = 0
    /\ pcall = NoPcall

NoDem == [op |-> "none", out |-> "", err |-> NoErr, errs |-> <<>>, scopes |-> <<>>]

NoBaseSymbol == [done |-> FALSE, demangledName |-> "", calls |-> 0, ret |-> "",
                 panic |-> FALSE, errs |-> <<>>]

DemIdle ==
    /\ symName = <<>>
    /\ dem = NoDem
    /\ symbol = NoBaseSymbol

laterVars == <<cacheVars, closeVars, demVars>>
LaterIdle ==
    /\ CacheIdle
    /\ CloseIdle
    /\ DemIdle

\* the variables added for the later specifications, and their idle state
furtherVars == <<pubVars, readerVars, laterVars>>
FurtherIdle ==
    /\ PubIdle
    /\ ReaderIdle
    /\ LaterIdle

\* the variables of the specifications that are not pictured in one
otherVars == <<dbiVars, iterVars, typeVars, furtherVars>>

notStreamVars == <<fileVars, symVars, conVars, tpiVars, otherVars>>
notFileVars == <<streamVars, symVars, conVars, tpiVars, otherVars>>
notSymVars == <<streamVars, fileVars, conVars, tpiVars, otherVars>>
notConVars == <<streamVars, fileVars, symVars, tpiVars, otherVars>>
notTpiVars == <<streamVars, fileVars, symVars, conVars, otherVars>>
notDbiVars == <<streamVars, fileVars, symVars, conVars, tpiVars, iterVars, typeVars,
                furtherVars>>
notIterVars == <<streamVars, fileVars, conVars, tpiVars, dbiVars, typeVars, furtherVars>>
notTypeVars == <<streamVars, fileVars, symVars, conVars, dbiVars, iterVars, furtherVars>>

\* the variables of the specifications before the later ones, symVars left out
formerVars == <<streamVars, fileVars, conVars, tpiVars, dbiVars, iterVars, typeVars>>
notPubVars == <<formerVars, readerVars, laterVars>>
notReaderVars == <<formerVars, symVars, pubVars, laterVars>>
notCacheVars == <<streamVars, fileVars, symVars, conVars, dbiVars, iterVars, typeVars,
                  pubVars, readerVars, closeVars, demVars>>
notCloseVars == <<formerVars, symVars, pubVars, readerVars, cacheVars, demVars>>
notDemVars == <<formerVars, symVars, pubVars, readerVars, cacheVars, closeVars>>

----------------------------------------------------------------------------
(* SpecStream: one Stream built by NewStream and used through its exported  *)
(* methods.  The block list has ceil(streamSize / blockSize) entries, as    *)
(* ParseDirectory builds it; the block indices themselves are whatever the  *)
(* directory holds, so some lie inside the source and some beyond its end.  *)

\* largest stream size tried
MaxStreamSize == 5
\* block indices a block list holds: inside the source, across its end and
\* (for the larger block size) beyond it
BlockIndices == {0, 1, 2}
\* size in bytes of the byte source
SrcSize == 5
\* largest buffer length handed to Read and ReadAt
MaxBuf == 2
\* block sizes tried
BlockSizes == {2, 3}

\* the byte source: every offset holds a value of its own
TestSource == [size |-> SrcSize, bytes |-> [o \in 0..(SrcSize - 1) |-> 100 + o]]

CeilDiv(a, b) == (a + b - 1) \div b

StreamInputs ==
    UNION { UNION { { NewStream(TestSource, blocks, B, S) :
                        blocks \in [1..CeilDiv(S, B) -> BlockIndices] } :
                    S \in 0..MaxStreamSize } :
            B \in BlockSizes }

NoRet == [op |-> "none", plen |-> 0, off |-> 0, pos0 |-> 0,
          n |-> 0, err |-> NoErr, bytes |-> <<>>]

FreshSeq == [clean |-> TRUE, bytes |-> <<>>, eof |-> FALSE]

\* after a Seek away from 0 the bytes read so far are no sequential read any more
BrokenSeq == [clean |-> FALSE, bytes |-> <<>>, eof |-> FALSE]

InitStream ==
    /\ stream \in StreamInputs
    /\ ret = NoRet
    /\ seq = FreshSeq
    /\ FileIdle
    /\ SymIdle
    /\ ConIdle
    /\ TpiIdle
    /\ DbiIdle
    /\ IterIdle
    /\ TypesIdle
    /\ FurtherIdle

\* n, err := s.Read(p)
CallRead(plen) ==
    LET r == Stream_Read(stream, plen)
    IN  /\ stream' = [stream EXCEPT !.pos = r.pos]
        /\ ret' = [op |-> "Read", plen |-> plen, off |-> 0, pos0 |-> stream.pos,
                   n |-> r.n, err |-> r.err, bytes |-> r.bytes]
        /\ seq' = IF seq.clean
                  THEN [seq EXCEPT !.bytes = @ \o r.bytes, !.eof = (r.err = EOF)]
                  ELSE seq
        /\ UNCHANGED notStreamVars

\* n, err := s.ReadAt(p, off)
CallReadAt(plen, off) ==
    LET r == Stream_ReadAt(stream, plen, off)
    IN  /\ ret' = [op |-> "ReadAt", plen |-> plen, off |-> off, pos0 |-> stream.pos,
                   n |-> r.n, err |-> r.err, bytes |-> r.bytes]
        /\ UNCHANGED <<stream, seq>>
        /\ UNCHANGED notStreamVars

\* s.Seek(offset, whence)
CallSeek(offset, whence) ==
    LET r == Stream_Seek(stream, offset, whence)
    IN  /\ stream' = [stream EXCEPT !.pos = r.pos]
        /\ ret' = [op |-> "Seek", plen |-> 0, off |-> offset, pos0 |-> stream.pos,
                   n |-> r.n, err |-> r.err, bytes |-> <<>>]
        /\ seq' = IF r.pos = 0 THEN FreshSeq ELSE BrokenSeq
        /\ UNCHANGED notStreamVars

\* s.Reset()
CallReset ==
    /\ stream' = [stream EXCEPT !.pos = 0]
    /\ ret' = [NoRet EXCEPT !.op = "Reset", !.pos0 = stream.pos]
    /\ seq' = FreshSeq
    /\ UNCHANGED notStreamVars

\* data, err := s.Bytes()
CallBytes ==
    LET r == Stream_Bytes(stream)
    IN  /\ ret' = [op |-> "Bytes", plen |-> stream.streamSize, off |-> 0,
                   pos0 |-> stream.pos, n |-> r.n, err |-> r.err, bytes |-> r.bytes]
        /\ UNCHANGED <<stream, seq>>
        /\ UNCHANGED notStreamVars

NextStream ==
    \/ \E plen \in 0..MaxBuf : CallRead(plen)
    \/ \E plen \in 0..MaxBuf, off \in -1..stream.streamSize : CallReadAt(plen, off)
    \/ \E offset \in -1..1, whence \in {SeekStart, SeekCurrent, SeekEnd, 3} :
          CallSeek(offset, whence)
    \/ CallReset
    \/ CallBytes

SpecStream == InitStream /\ [][NextStream]_vars

----------------------------------------------------------------------------
(* Spec: an MSF file given as a byte source, opened by NewFile and used      *)
(* through the methods of File.  The sources are of two families: headers   *)
(* of every kind over an empty directory, and well-formed headers over      *)
(* directories of every kind, sound or with one block index past the end.   *)

\* largest number of streams in a directory
MaxStreams == 2
\* the calls of ReadAt on the byte source that are followed
MaxReads == 6

\* the bytes bs placed at file offset base
Place(bs, base) == [o \in base..(base + Len(bs) - 1) |-> bs[o - base + 1]]

RECURSIVE Flatten(_)
Flatten(ss) == IF ss = <<>> THEN <<>> ELSE Head(ss) \o Flatten(Tail(ss))

\* the 56 bytes of a superblock
SuperBlockBytes(magic, blockSize, fpm, numBlocks, numDirectoryBytes, blockMapAddr) ==
    magic \o PutUint32LE(blockSize) \o PutUint32LE(fpm) \o PutUint32LE(numBlocks)
          \o PutUint32LE(numDirectoryBytes) \o PutUint32LE(0)
          \o PutUint32LE(blockMapAddr)

\* the bytes of a stream directory
DirectoryBytes(sizes, blocks) ==
    PutUint32LE(Len(sizes))
      \o Flatten([i \in 1..Len(sizes) |-> PutUint32LE(sizes[i])])
      \o Flatten([i \in 1..Len(sizes) |->
                    Flatten([j \in 1..Len(blocks[i]) |-> PutUint32LE(blocks[i][j])])])

BadMagic == [i \in 1..MagicSize |-> IF i = 1 THEN 78 ELSE Magic[i]]

\* headers of every kind; the directory is empty
HeaderSources ==
    { [size  |-> size,
       bytes |-> Place(SubSeq(SuperBlockBytes(magic, B, fpm, nb, 0, 1), 1,
                              Min(size, SuperBlockSize)), 0)] :
        magic \in {Magic, BadMagic},
        B     \in {256, 512, 768, 4096, 65536, 131072},
        fpm   \in {0, 1, 2, 3},
        nb    \in {0, 1, 3},
        size  \in {40, 56, 1535, 1536, 12288} }

\* block size, block count and block numbers of the directory family
DirNumBlocks == 8
DirBlockSize == BlockSizeMin
MapBlock == DirNumBlocks - 5
DirBlock == DirNumBlocks - 4

\* the block list written for a stream of the given size
GoodBlocks(size) ==
    IF size = NilStreamSize \/ size = 0 THEN <<>>
    ELSE IF size <= DirBlockSize THEN <<DirNumBlocks - 2>>
    ELSE <<DirNumBlocks - 1, DirNumBlocks - 3>>

\* the directories tried: stream sizes nil, empty, within one block and over
\* two blocks
StreamSizeChoices == {NilStreamSize, 0, 10, 600}

\* one defect at a time: none; the last block index of stream j replaced by
\* bad; the directory's block index in the block map replaced by bad; the
\* block map address past the end; NumDirectoryBytes short by cut
Defects(n) ==
    { [stream |-> 0, bad |-> 0, dirIdx |-> DirBlock, mapAddr |-> MapBlock, cut |-> 0] }
    \cup { [stream |-> j, bad |-> bad, dirIdx |-> DirBlock, mapAddr |-> MapBlock,
            cut |-> 0] : j \in 1..n, bad \in {DirNumBlocks, DirNumBlocks + 1} }
    \cup { [stream |-> 0, bad |-> 0, dirIdx |-> bad, mapAddr |-> MapBlock, cut |-> 0] :
            bad \in {DirNumBlocks, DirNumBlocks + 1} }
    \cup { [stream |-> 0, bad |-> 0, dirIdx |-> DirBlock,
            mapAddr |-> DirNumBlocks + 1, cut |-> 0],
           [stream |-> 0, bad |-> 0, dirIdx |-> DirBlock, mapAddr |-> MapBlock,
            cut |-> 4] }

DirectorySource(sizes, df, size) ==
    LET blocks == [i \in 1..Len(sizes) |->
                     IF i = df.stream /\ GoodBlocks(sizes[i]) # <<>>
                     THEN [GoodBlocks(sizes[i]) EXCEPT
                              ![Len(GoodBlocks(sizes[i]))] = df.bad]
                     ELSE GoodBlocks(sizes[i])]
        dbytes == DirectoryBytes(sizes, blocks)
    IN  [size  |-> size,
         bytes |-> Place(SuperBlockBytes(Magic, DirBlockSize, 1, DirNumBlocks,
                                         Len(dbytes) - df.cut, df.mapAddr), 0)
                   @@ Place(PutUint32LE(df.dirIdx), df.mapAddr * DirBlockSize)
                   @@ Place(dbytes, df.dirIdx * DirBlockSize)]

DirectorySources ==
    UNION { UNION { { DirectorySource(sizes, df, size) :
                        df \in Defects(n),
                        size \in {DirNumBlocks * DirBlockSize,
                                  (DirNumBlocks + 2) * DirBlockSize} } :
                    sizes \in [1..n -> StreamSizeChoices] } :
            n \in 0..MaxStreams }

Init ==
    /\ src \in HeaderSources \cup DirectorySources
    /\ srcReads = 0
    /\ msf = NoFile
    /\ openErr = "pending"
    /\ dirOnce = FALSE
    /\ directory = NoDirectory
    /\ dirErr = NoErr
    /\ fret = NoFret
    /\ StreamIdle
    /\ SymIdle
    /\ ConIdle
    /\ TpiIdle
    /\ DbiIdle
    /\ IterIdle
    /\ TypesIdle
    /\ FurtherIdle

\* f, err := msf.NewFile(r, size)
CallNewFile ==
    /\ openErr = "pending"
    /\ LET r == NewFile(src)
       IN  /\ msf' = r.file
           /\ openErr' = r.err
           /\ srcReads' = srcReads + r.reads
    /\ UNCHANGED <<src, dirOnce, directory, dirErr, fret>>
    /\ UNCHANGED notFileVars

\* the call of f.Directory() at the head of every method of File
UseDirectory(d, reads) ==
    /\ msf.open
    /\ srcReads + d.reads + reads <= MaxReads
    /\ dirOnce' = TRUE
    /\ directory' = d.dir
    /\ dirErr' = d.err
    /\ srcReads' = srcReads + d.reads + reads
    /\ UNCHANGED <<src, msf, openErr>>
    /\ UNCHANGED notFileVars

\* n, err := f.NumStreams()
CallNumStreams ==
    LET d == Directory(msf, src, dirOnce, directory, dirErr)
        r == File_NumStreams(d)
    IN  /\ UseDirectory(d, 0)
        /\ fret' = [NoFret EXCEPT !.op = "NumStreams", !.val = r.val, !.err = r.err]

\* n, err := f.StreamSize(i)
CallStreamSize(i) ==
    LET d == Directory(msf, src, dirOnce, directory, dirErr)
        r == File_StreamSize(d, i)
    IN  /\ UseDirectory(d, 0)
        /\ fret' = [NoFret EXCEPT !.op = "StreamSize", !.arg = i, !.val = r.val,
                                  !.err = r.err]

\* ok, err := f.StreamExists(i)
CallStreamExists(i) ==
    LET d == Directory(msf, src, dirOnce, directory, dirErr)
        r == File_StreamExists(d, i)
    IN  /\ UseDirectory(d, 0)
        /\ fret' = [NoFret EXCEPT !.op = "StreamExists", !.arg = i, !.ok = r.ok,
                                  !.err = r.err]

\* data, err := f.ReadStream(i)
CallReadStream(i) ==
    LET d == Directory(msf, src, dirOnce, directory, dirErr)
        r == File_ReadStream(msf, src, d, i)
    IN  /\ UseDirectory(d, r.reads)
        /\ fret' = [NoFret EXCEPT !.op = "ReadStream", !.arg = i, !.err = r.err,
                                  !.bytes = r.bytes]

Next ==
    \/ CallNewFile
    \/ CallNumStreams
    \/ \E i \in 0..MaxStreams : CallStreamSize(i)
    \/ \E i \in 0..MaxStreams : CallStreamExists(i)
    \/ \E i \in 0..MaxStreams : CallReadStream(i)

Spec == Init /\ [][Next]_vars

----------------------------------------------------------------------------
(* SpecSym: a SymbolTable over a symbol-record stream written from a list   *)
(* of records, and the lookups by name and by address on it.  The records   *)
(* are of every named kind and of a kind without a name, well formed or     *)
(* not; two of the names fall into the same hash bucket.                    *)

\* largest number of records in the symbol-record stream
MaxRecords == 2

Rec(kind, name, seg, off, form) ==
    [kind |-> kind, name |-> name, seg |-> seg, off |-> off, form |-> form]

\* "a", "ab", "bC" (the bucket of "ab"), "b" and the empty name
RecordShapes ==
    { Rec(S_PUB32, <<97>>, 1, 16, "ok"),
      Rec(S_PUB32, <<97, 98>>, 1, 32, "ok"),
      Rec(S_PUB32, <<98, 67>>, 2, 16, "ok"),
      Rec(S_PUB32, <<>>, 1, 24, "ok"),
      Rec(S_PUB32, <<98>>, 2, 32, "noNul"),
      Rec(S_PUB32, <<98>>, 1, 8, "len0"),
      Rec(S_GDATA32, <<97, 98>>, 1, 8, "ok"),
      Rec(S_GPROC32, <<98, 67>>, 1, 40, "ok"),
      Rec(S_UDT, <<97>>, 0, 0, "ok"),
      Rec(S_CONSTANT, <<98>>, 0, 0, "ok"),
      Rec(S_END, <<>>, 0, 0, "ok") }

\* the payload of a record, before padding
RecordPayload(r) ==
    LET term == IF r.form = "ok" THEN <<0>> ELSE <<>>
    IN  CASE r.kind \in {S_PUB32, S_GDATA32} ->
               PutUint32LE(0) \o PutUint32LE(r.off) \o PutUint16LE(r.seg)
                 \o r.name \o term
          [] r.kind = S_GPROC32 ->
               Flatten([i \in 1..7 |-> PutUint32LE(0)]) \o PutUint32LE(r.off)
                 \o PutUint16LE(r.seg) \o <<0>> \o r.name \o term
          [] r.kind = S_UDT -> PutUint32LE(4096) \o r.name \o term
          [] r.kind = S_CONSTANT ->
               PutUint32LE(4096) \o PutUint16LE(5) \o r.name \o term
          [] r.kind = S_LOCAL ->
               PutUint32LE(4096) \o PutUint16LE(0) \o r.name \o term
          [] r.kind = S_LABEL32 ->
               PutUint32LE(r.off) \o PutUint16LE(r.seg) \o <<0>> \o r.name \o term
          [] r.kind = S_BLOCK32 ->
               Flatten([i \in 1..3 |-> PutUint32LE(0)]) \o PutUint32LE(r.off)
                 \o PutUint16LE(r.seg) \o r.name \o term
          [] r.kind = S_THUNK32 ->
               Flatten([i \in 1..3 |-> PutUint32LE(0)]) \o PutUint32LE(r.off)
                 \o PutUint16LE(r.seg) \o PutUint16LE(0) \o <<0>> \o r.name \o term
          [] OTHER -> <<>>

\* the bytes of a record: length, kind, payload, padding to a multiple of 4;
\* a record of form len0 has a length field of 0
RecordBytes(r) ==
    IF r.form = "len0" THEN <<0, 0>> \o PutUint16LE(r.kind)
    ELSE LET pl  == RecordPayload(r)
             pad == [i \in 1..((4 - (Len(pl) % 4)) % 4) |->
                       IF r.form = "ok" THEN 0 ELSE 241]
         IN  PutUint16LE(2 + Len(pl) + Len(pad)) \o PutUint16LE(r.kind) \o pl \o pad

\* the records with the offsets they are written at
RECURSIVE PlaceRecords(_, _)
PlaceRecords(rs, at) ==
    IF rs = <<>> THEN <<>>
    ELSE <<[at |-> at, rec |-> Head(rs)]>>
           \o PlaceRecords(Tail(rs), at + Len(RecordBytes(Head(rs))))

Reverse(s) == [i \in 1..Len(s) |-> s[Len(s) + 1 - i]]

InitSym ==
    /\ \E n \in 0..MaxRecords : \E rs \in [1..n -> RecordShapes] :
          /\ symRecs = PlaceRecords(rs, 0)
          /\ symData = Flatten([i \in 1..n |-> RecordBytes(rs[i])])
    /\ LET offs == [i \in 1..Len(symRecs) |-> symRecs[i].at]
       IN  addrMap \in {offs, Append(Reverse(offs), Len(symData))}
    /\ nameIndex = NoIndex
    /\ addrIndex = NoIndex
    /\ sret = NoSret
    /\ StreamIdle
    /\ FileIdle
    /\ ConIdle
    /\ TpiIdle
    /\ DbiIdle
    /\ IterIdle
    /\ TypesIdle
    /\ FurtherIdle

\* sym, found := st.FindByName(name)
CallFindByName(name) ==
    LET idx == buildNameIndex(nameIndex, symData)
        r   == SymbolTable_FindByName(idx, symData, name)
    IN  /\ nameIndex' = idx
        /\ sret' = [NoSret EXCEPT !.op = "FindByName", !.name = name,
                                  !.offsets = r.offsets, !.sym = r.sym,
                                  !.found = r.found]
        /\ UNCHANGED <<symData, symRecs, addrMap, addrIndex>>
        /\ UNCHANGED notSymVars

\* sym, found := st.FindSymbolContaining(section, offset)
CallFindSymbolContaining(section, offset) ==
    \E idx \in buildAddrIndex(addrIndex, addrMap, symData) :
        LET r == SymbolTable_FindSymbolContaining(idx, symData, section, offset)
        IN  /\ addrIndex' = idx
            /\ sret' = [NoSret EXCEPT !.op = "FindSymbolContaining",
                                      !.section = section, !.offset = offset,
                                      !.at = r.at, !.sym = r.sym, !.found = r.found]
            /\ UNCHANGED <<symData, symRecs, addrMap, nameIndex>>
            /\ UNCHANGED notSymVars

QueryNames == {<<>>, <<97>>, <<98>>, <<97, 98>>, <<98, 67>>}

NextSym ==
    \/ \E name \in QueryNames : CallFindByName(name)
    \/ \E section \in 1..2, offset \in {8, 16, 24} :
          CallFindSymbolContaining(section, offset)
    \/ CallFindSymbolContaining(3, 16)

SpecSym == InitSym /\ [][NextSym]_vars

----------------------------------------------------------------------------
(* SpecPub: a SymbolTable over the symbol-record streams of SpecSym, asked  *)
(* for its public symbols and for their number, in any order.               *)

InitPub ==
    /\ \E n \in 0..MaxRecords : \E rs \in [1..n -> RecordShapes] :
          /\ symRecs = PlaceRecords(rs, 0)
          /\ symData = Flatten([i \in 1..n |-> RecordBytes(rs[i])])
    /\ addrMap = <<>>
    /\ nameIndex = NoIndex
    /\ addrIndex = NoIndex
    /\ sret = NoSret
    /\ StreamIdle
    /\ FileIdle
    /\ ConIdle
    /\ TpiIdle
    /\ DbiIdle
    /\ IterIdle
    /\ TypesIdle
    /\ FurtherIdle
    /\ LaterIdle

\* for sym := range st.Public(), left to run to its end
CallPublic ==
    /\ pret' = [pret EXCEPT !.op = "Public", !.count = 0,
                            !.list = SymbolTable_Public(symData, 0, <<>>)]
    /\ UNCHANGED <<symVars, publicSymbols>>
    /\ UNCHANGED notPubVars

\* syms, err := st.PublicCached()
CallPublicCached ==
    /\ publicSymbols' = PublicCached(publicSymbols, symData)
    /\ pret' = [pret EXCEPT !.op = "PublicCached", !.count = 0,
                            !.list = publicSymbols'.list]
    /\ UNCHANGED symVars
    /\ UNCHANGED notPubVars

\* n := st.PublicCount()
CallCount ==
    /\ pret' = [op |-> "PublicCount", list |-> <<>>,
                count |-> PublicCount(publicSymbols, symData),
                counts |-> pret.counts \cup {PublicCount(publicSymbols, symData)}]
    /\ UNCHANGED <<symVars, publicSymbols>>
    /\ UNCHANGED notPubVars

NextPub ==
    \/ CallPublic
    \/ CallPublicCached
    \/ CallCount

SpecPub == InitPub /\ [][NextPub]_vars

----------------------------------------------------------------------------
(* SpecOnce: threads calling the lazy getters of pdb.File and                *)
(* pdb.SymbolTable at the same time.  Every getter runs its build inside a  *)
(* sync.Once; PublicCount reads st.publicSymbols outside of any.            *)

Threads == {1, 2}

Cells == {"directory", "tpiStream", "ipiStream", "dbiStream", "symRecordData",
          "psi", "nameIndex", "addrIndex", "publicSymbols"}

\* the structures whose build reads and parses a stream, and so can fail
CanFail == {"directory", "tpiStream", "ipiStream", "dbiStream", "symRecordData", "psi"}

\* the getters the build of c calls, in order
Deps(c) ==
    CASE c = "directory" -> <<>>
      [] c = "ipiStream" -> <<"directory", "directory">>
      [] c \in {"tpiStream", "dbiStream", "symRecordData", "psi"} -> <<"directory">>
      [] c \in {"nameIndex", "publicSymbols"} -> <<"symRecordData">>
      [] c = "addrIndex" -> <<"symRecordData", "psi">>

NilOutcome == [val |-> 0, err |-> NoErr]

\* what the build of c stores: depErr is the error of the getter it called
\* last, serial tells one run of the build from another
BuildOutcome(c, depErr, serial) ==
    IF depErr # NoErr
    THEN IF c \in {"nameIndex", "addrIndex"} THEN NilOutcome
         ELSE IF c \in {"symRecordData", "psi", "publicSymbols"}
         THEN [val |-> 0, err |-> depErr]
         ELSE [val |-> 0, err |-> c]
    ELSE IF c \in failing THEN [val |-> 0, err |-> c]
    ELSE [val |-> serial, err |-> NoErr]

\* sync.Once.Do entering doSlow without taking the mutex (a variant of
\* Once_MutexFree)
Once_MutexFree_Unlocked(o) == TRUE

\* sync.Once.Do, doSlow: o.m.Lock() goes on when no thread holds the mutex
Once_MutexFree(o) == ~o.locked

Frame(c, stage) ==
    [c |-> c, stage |-> stage, k |-> 1, dep |-> NoErr, serial |-> 0, first |-> "none"]

\* the calling frame f after the getter it called returned o
Resume(f, o) ==
    IF f.c = "PublicCount" THEN [f EXCEPT !.stage = "count", !.dep = o.err]
    ELSE IF o.err # NoErr \/ f.k + 1 > Len(Deps(f.c))
    THEN [f EXCEPT !.stage = "store", !.dep = o.err, !.k = f.k + 1]
    ELSE [f EXCEPT !.k = f.k + 1]

\* the getter of c (or PublicCount) returns o to thread t, whose callers are
\* the stack s
Return(t, s, c, o) ==
    /\ returned' = [returned EXCEPT ![c] = @ \cup {o}]
    /\ IF s = <<>>
       THEN /\ thr' = [thr EXCEPT ![t] = <<>>]
            /\ cret' = [cret EXCEPT ![t] = [op |-> c, val |-> o.val, err |-> o.err]]
       ELSE /\ thr' = [thr EXCEPT ![t] =
                          Append(SubSeq(s, 1, Len(s) - 1), Resume(s[Len(s)], o))]
            /\ UNCHANGED cret

\* thread t, with callers s, calls the getter of c: once.Do returns at once
\* when done is set, the fields beside it are then read
Enter(t, s, c) ==
    IF once[c].done THEN Return(t, s, c, cell[c])
    ELSE /\ thr' = [thr EXCEPT ![t] = Append(s, Frame(c, "lock"))]
         /\ UNCHANGED <<cret, returned>>

\* the calls the threads make between them
MaxCalls == 2

\* the symbol-record stream behind the SymbolTable: two S_PUB32 records, the
\* name of the second without its terminator
OnceSymData ==
    RecordBytes(Rec(S_PUB32, <<97>>, 1, 16, "ok"))
      \o RecordBytes(Rec(S_PUB32, <<98>>, 2, 32, "noNul"))

InitOnce ==
    /\ once = [c \in Cells |-> [done |-> FALSE, locked |-> FALSE]]
    /\ cell = [c \in Cells |-> NilOutcome]
    /\ builds = [c \in Cells |-> 0]
    /\ pubSyms = [ptr |-> 0, len |-> 0]
    /\ thr = [t \in Threads |-> <<>>]
    /\ cret = [t \in Threads |-> [op |-> "none", val |-> 0, err |-> NoErr]]
    /\ returned = [c \in Cells \cup {"PublicCount"} |-> {}]
    /\ failing \in {{}} \cup { {c} : c \in CanFail }
    /\ raced = FALSE
    /\ calls = 0
    /\ symData = OnceSymData
    /\ symRecs = <<>>
    /\ addrMap = <<>>
    /\ nameIndex = NoIndex
    /\ addrIndex = NoIndex
    /\ sret = NoSret
    /\ StreamIdle
    /\ FileIdle
    /\ TpiIdle
    /\ DbiIdle
    /\ IterIdle
    /\ TypesIdle
    /\ FurtherIdle

Top(t) == thr[t][Len(thr[t])]
Callers(t) == SubSeq(thr[t], 1, Len(thr[t]) - 1)
SetTop(t, f) == [thr EXCEPT ![t] = Append(Callers(t), f)]

\* another thread is inside the build that writes st.publicSymbols
Writing(t) ==
    \E u \in Threads \ {t} : \E i \in 1..Len(thr[u]) :
        thr[u][i].c = "publicSymbols" /\ thr[u][i].stage \in {"run", "store", "store2"}

\* thread t calls the getter of c: f.Directory(), f.getTPI(), f.getIPI(),
\* f.getDBI(), st.ensureSymRecordData(), st.ensurePSI(), st.buildNameIndex(),
\* st.buildAddrIndex(), st.PublicCached()
CallGetter(t, c) ==
    /\ thr[t] = <<>>
    /\ calls < MaxCalls
    /\ calls' = calls + 1
    /\ Enter(t, <<>>, c)
    /\ UNCHANGED <<once, cell, builds, pubSyms, failing, raced>>
    /\ UNCHANGED notConVars

\* once.Do, doSlow: take the mutex, test done again, start the build
StepLock(t) ==
    /\ thr[t] # <<>>
    /\ Top(t).stage = "lock"
    /\ Once_MutexFree(once[Top(t).c])
    /\ LET c == Top(t).c
       IN  IF once[c].done
           THEN /\ Return(t, Callers(t), c, cell[c])
                /\ UNCHANGED <<once, builds>>
           ELSE /\ once' = [once EXCEPT ![c].locked = TRUE]
                /\ builds' = [builds EXCEPT ![c] = @ + 1]
                /\ thr' = SetTop(t, [Top(t) EXCEPT
                              !.stage = IF Deps(c) = <<>> THEN "store" ELSE "run",
                              !.serial = builds[c] + 1])
                /\ UNCHANGED <<cret, returned>>
    /\ UNCHANGED <<cell, pubSyms, failing, raced>>
    /\ UNCHANGED <<calls, notConVars>>

\* the build calls the next getter it depends on
StepRun(t) ==
    /\ thr[t] # <<>>
    /\ Top(t).stage = "run"
    /\ Enter(t, thr[t], Deps(Top(t).c)[Top(t).k])
    /\ UNCHANGED <<once, cell, builds, pubSyms, failing, raced>>
    /\ UNCHANGED <<calls, notConVars>>

\* the build stores value and error, once.Do sets done and releases the mutex
StepStore(t) ==
    /\ thr[t] # <<>>
    /\ Top(t).stage = "store"
    /\ Top(t).c # "publicSymbols"
    /\ LET c == Top(t).c
           o == BuildOutcome(c, Top(t).dep, Top(t).serial)
       IN  /\ cell' = [cell EXCEPT ![c] = o]
           /\ once' = [once EXCEPT ![c] = [done |-> TRUE, locked |-> FALSE]]
           /\ Return(t, Callers(t), c, o)
    /\ UNCHANGED <<builds, pubSyms, failing, raced>>
    /\ UNCHANGED <<calls, notConVars>>

\* the slice header PublicCached's build stores in st.publicSymbols
PublicHeader(o) ==
    [ptr |-> o.val,
     len |-> IF o.err = NoErr THEN Len(loadPublicSymbols(symData, 0, <<>>)) ELSE 0]

\* PublicCached's build stores the first word of st.publicSymbols; the words
\* of a slice header are stored one by one, in an order the build decides
StepStoreWord(t) ==
    /\ thr[t] # <<>>
    /\ Top(t).stage = "store"
    /\ Top(t).c = "publicSymbols"
    /\ \E w \in {"ptr", "len"} :
          LET h == PublicHeader(BuildOutcome("publicSymbols", Top(t).dep, Top(t).serial))
          IN  /\ pubSyms' = IF w = "ptr" THEN [pubSyms EXCEPT !.ptr = h.ptr]
                            ELSE [pubSyms EXCEPT !.len = h.len]
              /\ thr' = SetTop(t, [Top(t) EXCEPT !.stage = "store2", !.first = w])
    /\ UNCHANGED <<once, cell, builds, cret, returned, failing, raced>>
    /\ UNCHANGED <<calls, notConVars>>

\* PublicCached's build stores the other word and the error; once.Do sets
\* done and releases the mutex
StepStoreRest(t) ==
    /\ thr[t] # <<>>
    /\ Top(t).stage = "store2"
    /\ LET o == BuildOutcome("publicSymbols", Top(t).dep, Top(t).serial)
       IN  /\ pubSyms' = PublicHeader(o)
           /\ cell' = [cell EXCEPT !["publicSymbols"] = o]
           /\ once' = [once EXCEPT !["publicSymbols"] = [done |-> TRUE, locked |-> FALSE]]
           /\ Return(t, Callers(t), "publicSymbols", o)
    /\ UNCHANGED <<builds, failing, raced>>
    /\ UNCHANGED <<calls, notConVars>>

\* thread t calls st.PublicCount()
CallPublicCount(t) ==
    /\ thr[t] = <<>>
    /\ calls < MaxCalls
    /\ calls' = calls + 1
    /\ thr' = [thr EXCEPT ![t] = <<Frame("PublicCount", "rptr")>>]
    /\ UNCHANGED <<once, cell, builds, pubSyms, cret, returned, failing, raced>>
    /\ UNCHANGED notConVars

\* PublicCount: st.publicSymbols != nil, read with no lock held; when nil it
\* goes on to ensureSymRecordData
StepReadPtr(t) ==
    /\ thr[t] # <<>>
    /\ Top(t).stage = "rptr"
    /\ raced' = (raced \/ Writing(t))
    /\ IF pubSyms.ptr # 0
       THEN /\ thr' = SetTop(t, [Top(t) EXCEPT !.stage = "rlen"])
            /\ UNCHANGED <<cret, returned>>
       ELSE Enter(t, thr[t], "symRecordData")
    /\ UNCHANGED <<once, cell, builds, pubSyms, failing>>
    /\ UNCHANGED <<calls, notConVars>>

\* PublicCount: return len(st.publicSymbols), read with no lock held
StepReadLen(t) ==
    /\ thr[t] # <<>>
    /\ Top(t).stage = "rlen"
    /\ raced' = (raced \/ Writing(t))
    /\ Return(t, Callers(t), "PublicCount", [val |-> pubSyms.len, err |-> NoErr])
    /\ UNCHANGED <<once, cell, builds, pubSyms, failing>>
    /\ UNCHANGED <<calls, notConVars>>

\* PublicCount: count the S_PUB32 records of the stream
StepCount(t) ==
    /\ thr[t] # <<>>
    /\ Top(t).stage = "count"
    /\ Return(t, Callers(t), "PublicCount",
              [val |-> IF Top(t).dep # NoErr THEN 0 ELSE PublicCountScan(symData, 0, 0),
               err |-> NoErr])
    /\ UNCHANGED <<once, cell, builds, pubSyms, failing, raced>>
    /\ UNCHANGED <<calls, notConVars>>

NextOnce ==
    \E t \in Threads :
        \/ \E c \in Cells : CallGetter(t, c)
        \/ StepLock(t)
        \/ StepRun(t)
        \/ StepStore(t)
        \/ StepStoreWord(t)
        \/ StepStoreRest(t)
        \/ CallPublicCount(t)
        \/ StepReadPtr(t)
        \/ StepReadLen(t)
        \/ StepCount(t)

SpecOnce == InitOnce /\ [][NextOnce]_vars

----------------------------------------------------------------------------
(* SpecTpi: a TPI/IPI stream written from a header and a list of type       *)
(* records, parsed by ParseStream and read through GetTypeRecord.  The      *)
(* header is sound or names an unsupported version, more type indices than  *)
(* there are records, or more record bytes than the data holds; a record    *)
(* is sound or has a length field too small to hold its kind.               *)

MaxTypeRecords == 2

TypeRecordShapes ==
    { [len |-> 2, kind |-> LF_POINTER, data |-> <<>>],
      [len |-> 4, kind |-> LF_STRUCTURE, data |-> <<7, 9>>],
      [len |-> 0, kind |-> LF_POINTER, data |-> <<>>],
      [len |-> 1, kind |-> LF_POINTER, data |-> <<>>] }

\* a type record as it lies in the record area: the length field, then as
\* many bytes of kind and data as the length field says
TypeRecordEncoding(r) ==
    PutUint16LE(r.len) \o SubSeq(PutUint16LE(r.kind) \o r.data, 1, r.len)

RECURSIVE TypeRecordArea(_)
TypeRecordArea(recs) ==
    IF recs = <<>> THEN <<>>
    ELSE TypeRecordEncoding(Head(recs)) \o TypeRecordArea(Tail(recs))

TpiHeaderBytes(version, begin, end, recordBytes) ==
    PutUint32LE(version) \o PutUint32LE(TPIHeaderSize) \o PutUint32LE(begin)
      \o PutUint32LE(end) \o PutUint32LE(recordBytes)
      \o [i \in 1..(TPIHeaderSize - 20) |-> 0]

TypeRecordLists == UNION { [1..n -> TypeRecordShapes] : n \in 0..MaxTypeRecords }

\* a stream of the records recs under a header that counts extra type
\* indices too many and cut record bytes too few, its last chop bytes missing
TpiSource(version, recs, extra, cut, chop) ==
    LET area == TypeRecordArea(recs)
    IN  TpiHeaderBytes(version, FirstUserTypeIndex,
                       FirstUserTypeIndex + Len(recs) + extra, Len(area) - cut)
          \o SubSeq(area, 1, Len(area) - chop)

TpiSources ==
    { TpiSource(TPIVersionV80, recs, extra, d[1], d[2]) :
          recs \in TypeRecordLists \ {<<>>}, extra \in {0, 1},
          d \in {<<0, 0>>, <<1, 0>>, <<0, 1>>} }
      \cup { TpiSource(v, recs, 0, 0, 0) :
               v \in {TPIVersionV70, TPIVersionV80, TPIVersionV50, 0, TPIVersionV80 + 1},
               recs \in {<<>>, <<[len |-> 2, kind |-> LF_POINTER, data |-> <<>>]>>} }
      \cup { SubSeq(TpiSource(v, <<>>, 0, 0, 0), 1, TPIHeaderSize - 16) :
               v \in {TPIVersionV80, TPIVersionV50} }

\* the type indices asked for: the last simple one, those of the records and
\* of the indices counted too many, and one past them
TypeQueries == (FirstUserTypeIndex - 1)..(FirstUserTypeIndex + MaxTypeRecords + 1)

InitTpi ==
    /\ tpiData \in TpiSources
    /\ tpi = NoTpi
    /\ typeCache = <<>>
    /\ tget = NoTget
    /\ fetched = [ti \in TypeQueries |-> {}]
    /\ StreamIdle
    /\ FileIdle
    /\ SymIdle
    /\ ConIdle
    /\ DbiIdle
    /\ IterIdle
    /\ TypesIdle
    /\ FurtherIdle

CallParseStream ==
    /\ tpi.err = "idle"
    /\ tpi' = ParseStream(tpiData)
    /\ UNCHANGED <<tpiData, typeCache, tget, fetched>>
    /\ UNCHANGED notTpiVars

CallGetTypeRecord(ti) ==
    /\ tpi.err = NoErr
    /\ LET r == GetTypeRecord(tpi, typeCache, ti)
       IN  /\ typeCache' = r.cache
           /\ tget' = [ti |-> ti, rec |-> r.rec, err |-> r.err]
           /\ fetched' = [fetched EXCEPT ![ti] = @ \cup {[rec |-> r.rec, err |-> r.err]}]
    /\ UNCHANGED <<tpiData, tpi>>
    /\ UNCHANGED notTpiVars

NextTpi ==
    \/ CallParseStream
    \/ \E ti \in TypeQueries : CallGetTypeRecord(ti)

SpecTpi == InitTpi /\ [][NextTpi]_vars

----------------------------------------------------------------------------
(* SpecDbi: a DBI stream written from a header and an optional debug header *)
(* of 0 to 11 stream indices, parsed by ParseStream; File.loadSectionHeaders *)
(* then looks for the section header stream.  The header carries every      *)
(* known version and an unknown one, a good or a bad signature, and other   *)
(* substreams of some length before the optional debug header.              *)

\* the header of a DBI stream without modules: signature, version, the
\* sizes of the source info, EC and optional debug header substreams
DbiHeaderBytes(signature, version, sourceInfoSize, optSize, ecSize) ==
    PutUint32LE(signature) \o PutUint32LE(version) \o [i \in 1..16 |-> 0]
      \o PutUint32LE(0) \o PutUint32LE(0) \o PutUint32LE(0)
      \o PutUint32LE(sourceInfoSize) \o PutUint32LE(0) \o PutUint32LE(0)
      \o PutUint32LE(optSize) \o PutUint32LE(ecSize) \o [i \in 1..8 |-> 0]

\* an optional debug header of n stream indices, the i-th being 20 + i, and
\* odd more bytes after them
OptionalDbgBytes(n, odd) ==
    [i \in 1..(2 * n + odd) |-> IF i % 2 = 1 /\ i <= 2 * n THEN 20 + (i + 1) \div 2 ELSE 0]

\* a DBI stream: chop bytes are missing at its end
DbiSource(signature, version, before, n, odd, chop) ==
    LET whole == DbiHeaderBytes(signature, version, before, 2 * n + odd, before)
                   \o [i \in 1..(2 * before) |-> 255] \o OptionalDbgBytes(n, odd)
    IN  SubSeq(whole, 1, Len(whole) - chop)

DbiVersions ==
    {0, DBIVersionV41, DBIVersionV50, DBIVersionV60, DBIVersionV70, DBIVersionV110}

DbiSources ==
    { DbiSource(-1, v, before, n, odd, 0) :
          v \in DbiVersions, before \in {0, 3}, n \in 0..OptionalDbgFields, odd \in {0, 1} }
      \cup { DbiSource(0, v, 0, OptionalDbgFields, 0, 0) : v \in DbiVersions }
      \cup { DbiSource(-1, v, 3, n, 0, 1) : v \in DbiVersions, n \in {0, 1} }
      \cup { SubSeq(DbiSource(-1, v, 0, 0, 0, 0), 1, DBIHeaderSize - 8) : v \in DbiVersions }

InitDbi ==
    /\ dbiData \in DbiSources
    /\ dbi = NoDbi
    /\ dret = [err |-> "idle", stream |-> 0]
    /\ StreamIdle
    /\ FileIdle
    /\ SymIdle
    /\ ConIdle
    /\ TpiIdle
    /\ IterIdle
    /\ TypesIdle
    /\ FurtherIdle

CallDbiParseStream ==
    /\ dbi.err = "idle"
    /\ dbi' = Dbi_ParseStream(dbiData)
    /\ UNCHANGED <<dbiData, dret>>
    /\ UNCHANGED notDbiVars

CallLoadSectionHeaders ==
    /\ dbi.err = NoErr
    /\ dret.err = "idle"
    /\ dret' = loadSectionHeaders(dbi)
    /\ UNCHANGED <<dbiData, dbi>>
    /\ UNCHANGED notDbiVars

NextDbi ==
    \/ CallDbiParseStream
    \/ CallLoadSectionHeaders

SpecDbi == InitDbi /\ [][NextDbi]_vars

-----------------------------------------------------------------------------
(* SpecIter: the iterators of a SymbolTable and of its modules, consumed    *)
(* one element at a time.  Each yield hands an element to the consumer,     *)
(* whose loop body either goes on or breaks; the producer's position is    *)
(* the variable it.                                                         *)

\* largest number of modules
MaxModules == 2

\* the records the symbol-record stream is made of
IterShapes ==
    { Rec(S_PUB32, <<97>>, 1, 16, "ok"),
      Rec(S_PUB32, <<97, 98>>, 1, 32, "ok"),
      Rec(S_PUB32, <<98>>, 2, 32, "noNul"),
      Rec(S_PUB32, <<98>>, 1, 8, "len0"),
      Rec(S_END, <<>>, 0, 0, "ok") }

SamplePublic == << Rec(S_PUB32, <<97>>, 1, 16, "ok"), Rec(S_PUB32, <<97, 98>>, 1, 32, "ok") >>

\* a module: the records inside the first SymByteSize bytes of its stream,
\* the records written after them, and how far SymByteSize overstates the
\* stream (short = TRUE: SymByteSize is 0)
Mod(recs, tail, over, short) ==
    LET body == Flatten([i \in 1..Len(recs) |-> RecordBytes(recs[i])])
        rest == Flatten([i \in 1..Len(tail) |-> RecordBytes(tail[i])])
        bytes == IF recs = <<>> /\ tail = <<>> THEN <<>>
                 ELSE PutUint32LE(4) \o body \o rest
    IN  [recs |-> recs, tail |-> tail, data |-> bytes, cap |-> Len(bytes),
         SymByteSize |-> IF short THEN 0 ELSE 4 + Len(body) + over]

ModuleShapes ==
    { Mod(<< Rec(S_GPROC32, <<98, 67>>, 1, 40, "ok"), Rec(S_LOCAL, <<97>>, 0, 0, "ok"),
             Rec(S_LABEL32, <<98>>, 1, 44, "ok"), Rec(S_END, <<>>, 0, 0, "ok") >>,
          <<>>, 0, FALSE),
      Mod(<< Rec(S_GDATA32, <<97, 98>>, 1, 8, "ok"), Rec(S_BLOCK32, <<>>, 1, 48, "ok"),
             Rec(S_THUNK32, <<97>>, 1, 56, "ok") >>,
          << Rec(S_UDT, <<97>>, 0, 0, "ok") >>, 0, FALSE),
      Mod(<< Rec(S_UDT, <<97>>, 0, 0, "ok"), Rec(S_CONSTANT, <<98>>, 0, 0, "ok") >>,
          <<>>, 8, FALSE),
      Mod(<< Rec(S_PUB32, <<97>>, 1, 16, "ok"), Rec(S_GDATA32, <<98>>, 1, 8, "noNul"),
             Rec(S_UDT, <<98>>, 0, 0, "ok") >>,
          <<>>, 0, FALSE),
      Mod(<< Rec(S_UDT, <<98>>, 0, 0, "ok") >>, <<>>, 0, TRUE),
      Mod(<<>>, <<>>, 0, FALSE) }

SampleModules ==
    << Mod(<< Rec(S_UDT, <<97>>, 0, 0, "ok"), Rec(S_CONSTANT, <<98>>, 0, 0, "ok") >>,
           <<>>, 0, FALSE) >>

\* the PDB the iterators run on: the symbol-record stream made of the
\* records rs, the modules ms, or no module list when Modules() fails
IterStart(rs, ms, failed) ==
    /\ symRecs = PlaceRecords(rs, 0)
    /\ symData = Flatten([i \in 1..Len(rs) |-> RecordBytes(rs[i])])
    /\ mods = [err |-> failed, list |-> ms]
    /\ modSyms = [i \in 1..Len(ms) |-> NoModuleSymbols]

IterNames == { <<97>>, <<98>> }

InitIter ==
    /\ \/ \E n \in 0..MaxRecords : \E rs \in [1..n -> IterShapes] :
             IterStart(rs, SampleModules, FALSE)
       \/ \E m \in 0..MaxModules : \E ms \in [1..m -> ModuleShapes] :
             IterStart(SamplePublic, ms, FALSE)
       \/ IterStart(SamplePublic, <<>>, TRUE)
    /\ addrMap = <<>>
    /\ nameIndex = NoIndex
    /\ addrIndex = NoIndex
    /\ sret = NoSret
    /\ it = NoIter
    /\ yielded = <<>>
    /\ parsed = 0
    /\ stopped = NoStop
    /\ StreamIdle
    /\ FileIdle
    /\ ConIdle
    /\ TpiIdle
    /\ DbiIdle
    /\ TypesIdle
    /\ FurtherIdle

\* the element handed to the consumer: where it comes from (0: the
\* symbol-record stream, m: module m) and the symbol
Element(from, sym) ==
    [from |-> from, kind |-> sym.kind, name |-> sym.name,
     section |-> sym.section, offset |-> sym.offset]

\* `if !yield(sym) { return }`: whether the producer returns, given what
\* the consumer's loop body answered
YieldReturns_Never(cont) == FALSE
YieldReturns(cont) == ~cont

\* a new iteration: the closure returned by Public(), All(), ByName() or
\* Symbols() is called by a range statement; it.after records whether the
\* consumer stopped the iteration before
Begin(i) ==
    /\ it.stage \in {"idle", "done", "panic"}
    /\ it' = [i EXCEPT !.after = stopped.is]
    /\ yielded' = <<>>
    /\ parsed' = 0
    /\ stopped' = NoStop

\* one yield: the element el reaches the consumer, which goes on or stops;
\* next is where the producer is if it goes on, p the records parsed so far
Yield(el, cont, next, p) ==
    /\ parsed' = p
    /\ yielded' = Append(yielded, el)
    /\ stopped' = IF cont THEN stopped
                  ELSE [is |-> TRUE, at |-> Len(yielded) + 1, parsed |-> p]
    /\ it' = IF YieldReturns(cont) THEN [it EXCEPT !.stage = "done"] ELSE next

\* where All() is after the loop over Public(): st.pdb.Modules(), then the
\* first module, if there is one
AfterPublic ==
    IF it.op = "All" /\ ~mods.err /\ Len(mods.list) > 0
    THEN [it EXCEPT !.stage = "load", !.mod = 1]
    ELSE [it EXCEPT !.stage = "done"]

\* where the producer is after the loop over one module's symbols
AfterModule ==
    IF it.op = "All" /\ it.mod < Len(mods.list)
    THEN [it EXCEPT !.stage = "load", !.mod = @ + 1]
    ELSE [it EXCEPT !.stage = "done"]

StartPublic ==
    /\ Begin([NoIter EXCEPT !.op = "Public", !.stage = "scan"])
    /\ UNCHANGED <<symVars, mods, modSyms, notIterVars>>

StartAll ==
    /\ Begin([NoIter EXCEPT !.op = "All", !.stage = "scan"])
    /\ UNCHANGED <<symVars, mods, modSyms, notIterVars>>

StartModuleSymbols(m) ==
    /\ m \in 1..Len(mods.list)
    /\ Begin([NoIter EXCEPT !.op = "Symbols", !.stage = "load", !.mod = m])
    /\ UNCHANGED <<symVars, mods, modSyms, notIterVars>>

StartByName(name) ==
    /\ nameIndex' = buildNameIndex(nameIndex, symData)
    /\ Begin([NoIter EXCEPT !.op = "ByName", !.stage = "offsets", !.k = 1,
                            !.name = name,
                            !.offsets = NameIndex_FindByName(nameIndex', name)])
    /\ UNCHANGED <<symData, symRecs, addrMap, addrIndex, sret, mods, modSyms,
                   notIterVars>>

\* one turn of the loop of SymbolTable.Public
StepScan ==
    /\ it.stage = "scan"
    /\ IF ~(it.offset < Len(symData) - 4)
       THEN /\ it' = AfterPublic
            /\ UNCHANGED <<yielded, parsed, stopped>>
       ELSE LET rec  == ParseSymbolRecord(Drop(symData, it.offset))
                sym  == ParsePublicSym32(rec.Data)
                next == [it EXCEPT !.offset = @ + rec.size]
                pub  == [ok |-> TRUE, kind |-> rec.Kind, name |-> sym.Name,
                         section |-> sym.Segment, offset |-> sym.Offset]
            IN  IF rec.err # NoErr
                THEN /\ it' = AfterPublic
                     /\ parsed' = parsed + 1
                     /\ UNCHANGED <<yielded, stopped>>
                ELSE IF rec.Kind = S_PUB32 /\ sym.err = NoErr
                THEN \E cont \in BOOLEAN : Yield(Element(0, pub), cont, next, parsed + 1)
                ELSE /\ it' = next
                     /\ parsed' = parsed + 1
                     /\ UNCHANGED <<yielded, stopped>>
    /\ UNCHANGED <<symVars, mods, modSyms, notIterVars>>

\* Module.loadSymbols of module it.mod: symbolsOnce runs parseSymbols the
\* first time; a panic of parseSymbols ends the iteration and leaves the
\* Once done, with m.symbols nil for every later call
StepLoad ==
    /\ it.stage = "load"
    /\ LET m == mods.list[it.mod]
           first == ~modSyms[it.mod].done
           r == IF first THEN Module_parseSymbols(m.data, m.cap, m.SymByteSize)
                ELSE modSyms[it.mod]
       IN  /\ modSyms' = [modSyms EXCEPT ![it.mod] = r]
           /\ parsed' = parsed + (IF first THEN r.parsed ELSE 0)
           /\ it' = IF first /\ r.panic THEN [it EXCEPT !.stage = "panic"]
                    ELSE [it EXCEPT !.stage = "emit", !.k = 1]
    /\ UNCHANGED <<symVars, mods, yielded, stopped, notIterVars>>

\* one turn of the loop of Module.Symbols over m.symbols
StepEmit ==
    /\ it.stage = "emit"
    /\ IF it.k > Len(modSyms[it.mod].symbols)
       THEN /\ it' = AfterModule
            /\ UNCHANGED <<yielded, parsed, stopped>>
       ELSE \E cont \in BOOLEAN :
               Yield(Element(it.mod, modSyms[it.mod].symbols[it.k]), cont,
                     [it EXCEPT !.k = @ + 1], parsed)
    /\ UNCHANGED <<symVars, mods, modSyms, notIterVars>>

\* one turn of the loop of SymbolTable.ByName over the offsets found
StepByName ==
    /\ it.stage = "offsets"
    /\ IF it.k > Len(it.offsets)
       THEN /\ it' = [it EXCEPT !.stage = "done"]
            /\ UNCHANGED <<yielded, parsed, stopped>>
       ELSE LET sym  == parseSymbolAt(symData, it.offsets[it.k])
                next == [it EXCEPT !.k = @ + 1]
            IN  IF sym.ok
                THEN \E cont \in BOOLEAN : Yield(Element(0, sym), cont, next, parsed + 1)
                ELSE /\ it' = next
                     /\ parsed' = parsed + 1
                     /\ UNCHANGED <<yielded, stopped>>
    /\ UNCHANGED <<symVars, mods, modSyms, notIterVars>>

NextIter ==
    \/ StartPublic
    \/ StartAll
    \/ \E m \in 1..MaxModules : StartModuleSymbols(m)
    \/ \E name \in IterNames : StartByName(name)
    \/ StepScan
    \/ StepLoad
    \/ StepEmit
    \/ StepByName

SpecIter == InitIter /\ [][NextIter]_vars

-----------------------------------------------------------------------------
(* SpecTypes: a TypeTable over a TPI stream that declares a chain of        *)
(* classes, each one with a field list of its own and, from the second on,  *)
(* a base-class field naming the class before it.  Class i has its field    *)
(* list at type index 0x1000 + 2(i-1) and its own record right after it.    *)
(* The table has been walked once, so the Stream's typeCache holds every     *)
(* record.                                                                   *)

\* largest number of classes
MaxChain == 3

\* the type of every member
SimpleTypeInt32 == 116

\* "A", "B", "C", "n::A", "m", "s", "x"
TypeNames == { <<65>>, <<66>>, <<110, 58, 58, 65>> }
MemberNames == { <<109>>, <<115>> }

\* a field as declared: LF_MEMBER at an offset, LF_STMEMBER, or LF_METHOD
Decl(kind, name, offset) == [kind |-> kind, name |-> name, offset |-> offset]

FieldLists ==
    { << Decl(LF_MEMBER, <<109>>, 4), Decl(LF_STMEMBER, <<115>>, 0) >>,
      << Decl(LF_STMEMBER, <<109>>, 0), Decl(LF_METHOD, <<115>>, 0),
         Decl(LF_MEMBER, <<120>>, 8) >>,
      <<>> }

\* the base-class field a class names the class before it with; 0 for none
Edges == {0, LF_BCLASS, LF_VBCLASS, LF_IVBCLASS}

\* class i of a chain; the first class has no base
Class(i, kind, name, edge, fields) ==
    [kind |-> kind, name |-> name, edge |-> IF i = 1 THEN 0 ELSE edge,
     fields |-> fields]

SampleNames == << <<65>>, <<66>>, <<67>>, <<68>> >>
SampleFields == << Decl(LF_MEMBER, <<109>>, 4), Decl(LF_STMEMBER, <<115>>, 0) >>

FieldListIndexOf(i) == FirstUserTypeIndex + 2 * (i - 1)
ClassIndexOf(i) == FirstUserTypeIndex + 2 * (i - 1) + 1

\* padding of a field to a multiple of 4 bytes: 0xF3, 0xF2, 0xF1
Padded(bytes) ==
    LET n == (4 - (Len(bytes) % 4)) % 4
    IN  bytes \o [i \in 1..n |-> 240 + n + 1 - i]

\* the bytes of a declared field and of a base-class field
FieldBytes(f) ==
    Padded(CASE f.kind = LF_MEMBER ->
                  PutUint16LE(LF_MEMBER) \o PutUint16LE(3) \o PutUint32LE(SimpleTypeInt32)
                    \o PutUint16LE(f.offset) \o f.name \o <<0>>
             [] f.kind = LF_STMEMBER ->
                  PutUint16LE(LF_STMEMBER) \o PutUint16LE(3) \o PutUint32LE(SimpleTypeInt32)
                    \o f.name \o <<0>>
             [] OTHER ->
                  PutUint16LE(LF_METHOD) \o PutUint16LE(1) \o PutUint32LE(SimpleTypeInt32)
                    \o f.name \o <<0>>)

EdgeBytes(edge, base) ==
    CASE edge = 0 -> <<>>
      [] edge = LF_BCLASS ->
           PutUint16LE(LF_BCLASS) \o PutUint16LE(3) \o PutUint32LE(base)
             \o PutUint16LE(0)
      [] OTHER ->
           PutUint16LE(edge) \o PutUint16LE(3) \o PutUint32LE(base)
             \o PutUint32LE(SimpleTypeInt32) \o PutUint16LE(0) \o PutUint16LE(1)

\* a type record: length, kind, data
TypeRecordBytes(kind, data) ==
    PutUint16LE(2 + Len(Padded(data))) \o PutUint16LE(kind) \o Padded(data)

\* the two type records of class i of the chain cs
ClassRecords(cs, i) ==
    LET c == cs[i]
        fl == EdgeBytes(c.edge, ClassIndexOf(i - 1))
                \o Flatten([k \in 1..Len(c.fields) |-> FieldBytes(c.fields[k])])
        head == PutUint16LE(Len(c.fields)) \o PutUint16LE(0)
                  \o PutUint32LE(FieldListIndexOf(i))
        rest == PutUint16LE(8) \o c.name \o <<0>>
    IN  TypeRecordBytes(LF_FIELDLIST, fl)
          \o TypeRecordBytes(c.kind,
                IF c.kind = LF_UNION THEN head \o rest
                ELSE head \o PutUint32LE(0) \o PutUint32LE(0) \o rest)

\* the TPI stream of the chain cs
ChainSource(cs) ==
    LET area == Flatten([i \in 1..Len(cs) |-> ClassRecords(cs, i)])
    IN  TpiHeaderBytes(TPIVersionV80, FirstUserTypeIndex,
                       FirstUserTypeIndex + 2 * Len(cs), Len(area)) \o area

\* the chains: the sample chain with the names of its classes changed, or
\* their base-class fields, or the record kind, the kind of base-class field
\* and the field list of all its classes
Chains ==
    UNION { { [i \in 1..n |-> Class(i, LF_CLASS, names[i], LF_BCLASS, SampleFields)] :
                names \in [1..n -> TypeNames] }
            \cup { [i \in 1..n |-> Class(i, LF_CLASS, SampleNames[i], edges[i], SampleFields)] :
                     edges \in [1..n -> Edges \ {LF_IVBCLASS}] }
            \cup { [i \in 1..n |-> Class(i, kind, SampleNames[i], edge, fields)] :
                     kind \in {LF_CLASS, LF_STRUCTURE, LF_UNION},
                     edge \in {LF_BCLASS, LF_IVBCLASS}, fields \in FieldLists }
            : n \in 1..MaxChain }

\* the patterns asked for: the member names alone, "m" under every class
\* name, "A::s" and "B::x"
Patterns ==
    MemberNames
      \cup { c \o Scope \o <<109>> :
               c \in TypeNames \cup {SampleNames[i] : i \in 1..MaxChain} }
      \cup { <<65>> \o Scope \o <<115>>, <<66>> \o Scope \o <<120>> }

\* the type indices asked for: a field list, the classes of the chain and
\* one past them
MemberQueries ==
    {FirstUserTypeIndex, FirstUserTypeIndex + 2 * MaxChain}
      \cup {ClassIndexOf(i) : i \in 1..MaxChain}

InitTypes ==
    /\ decl \in Chains
    /\ tpiData = ChainSource(decl)
    /\ tpi = ParseStream(tpiData)
    /\ typeCache = CacheAfter(tpi, <<>>, [i \in 1..(2 * Len(decl)) |->
                                            FirstUserTypeIndex + i - 1])
    /\ tget = NoTget
    /\ fetched = <<>>
    /\ memberIndex = NoMemberIndex
    /\ mret = NoMret
    /\ StreamIdle
    /\ FileIdle
    /\ SymIdle
    /\ ConIdle
    /\ DbiIdle
    /\ IterIdle
    /\ FurtherIdle

CallGetMembers(ti) ==
    /\ tpi.err = NoErr
    /\ LET r == GetMembers(tpi, typeCache, ti)
       IN  /\ mret' = [op |-> "GetMembers", arg |-> ti, members |-> r.members,
                       err |-> r.err]
           /\ typeCache' = CacheAfter(tpi, typeCache, r.fetched)
    /\ UNCHANGED <<tpiData, tpi, tget, fetched, decl, memberIndex>>
    /\ UNCHANGED notTypeVars

CallFindMembers(name) ==
    /\ tpi.err = NoErr
    /\ memberIndex' = buildMemberIndex(tpi, typeCache, memberIndex)
    /\ typeCache' =
         IF memberIndex.built THEN typeCache
         ELSE CacheAfter(tpi, typeCache,
                         [i \in 1..(tpi.Header.TypeIndexEnd - tpi.Header.TypeIndexBegin)
                            |-> tpi.Header.TypeIndexBegin + i - 1])
    /\ mret' = [op |-> "FindMembers", arg |-> name,
                members |-> FindMembers(memberIndex', name), err |-> NoErr]
    /\ UNCHANGED <<tpiData, tpi, tget, fetched, decl>>
    /\ UNCHANGED notTypeVars

NextTypes ==
    \/ \E ti \in MemberQueries : CallGetMembers(ti)
    \/ \E name \in Patterns : CallFindMembers(name)

SpecTypes == InitTypes /\ [][NextTypes]_vars

----------------------------------------------------------------------------
(* The MSVC demangler (package demangle).  A decorated name is a sequence   *)
(* of characters, each a string of length one; the strings the demangler    *)
(* builds are strings.  A Node is a record whose kind names its Go type.     *)

ErrEmptyInput == "demangle: empty input"
ErrInvalidMangled == "demangle: invalid mangled name"
ErrDemangleUnexpectedEnd == "demangle: unexpected end of input"
ErrInvalidBackref == "demangle: invalid back-reference"
ErrUnknownOperator == "demangle: unknown operator"
ErrUnknownType == "demangle: unknown type"

\* the run-time panic of an index out of range
IndexPanic == "panic: runtime error: index out of range"

\* string(chars)
RECURSIVE Concat(_)
Concat(chars) == IF chars = <<>> THEN "" ELSE Head(chars) \o Concat(Tail(chars))

\* strings.Join(parts, sep)
RECURSIVE strings_Join(_, _)
strings_Join(parts, sep) ==
    IF parts = <<>> THEN ""
    ELSE IF Len(parts) = 1 THEN parts[1]
    ELSE parts[1] \o sep \o strings_Join(Tail(parts), sep)

DigitChars == <<"0", "1", "2", "3", "4", "5", "6", "7", "8", "9">>
HexChars == <<"A", "B", "C", "D", "E", "F", "G", "H", "I", "J", "K", "L", "M", "N",
              "O", "P">>

IsIn(c, chars) == \E i \in 1..Len(chars) : chars[i] = c

\* c - '0' for a digit, c - 'A' for a letter of HexChars
ValueIn(c, chars) == (CHOOSE i \in 1..Len(chars) : chars[i] = c) - 1

\* fmt.Sprintf("%d", v) for v >= 0
RECURSIVE Decimal(_)
Decimal(v) ==
    IF v < 10 THEN DigitChars[v + 1] ELSE Decimal(v \div 10) \o DigitChars[(v % 10) + 1]

\* the six decimal digits of v < 10^6
SixDigits(v) == Concat([i \in 1..6 |-> DigitChars[((v \div (10 ^ (6 - i))) % 10) + 1]])

\* fmt.Sprintf("%d", v) for an int64
Sprintf_d(v) == IF v < 0 THEN "-" \o Decimal(0 - v) ELSE Decimal(v)

\* fmt.Sprintf("%d", uint64(v)) for an int64: a negative v is 2^64 - |v|,
\* 2^64 = 18446744 073709 551616
Sprintf_u64(v) ==
    IF v >= 0 THEN Decimal(v)
    ELSE With((0 - v) % 1000000, LAMBDA lo :
           With(IF lo > 551616 THEN 1 ELSE 0, LAMBDA borrow :
             "18446744" \o SixDigits(73709 - ((0 - v) \div 1000000) - borrow)
                        \o SixDigits(551616 + 1000000 * borrow - lo)))

NilNode == [kind |-> "nil"]

IsNil(n) == n.kind = "nil"

\* the table a switch over a character is: the value beside c, or "" when
\* no case names c
Case(table, c) ==
    IF \E i \in 1..Len(table) : table[i][1] = c
    THEN table[CHOOSE i \in 1..Len(table) : table[i][1] = c][2]
    ELSE ""

operatorNames ==
    <<<<"OpNew", "operator new">>, <<"OpDelete", "operator delete">>,
      <<"OpAssign", "operator=">>, <<"OpRightShift", "operator>>">>,
      <<"OpLeftShift", "operator<<">>, <<"OpLogicalNot", "operator!">>,
      <<"OpEqual", "operator==">>, <<"OpNotEqual", "operator!=">>,
      <<"OpSubscript", "operator[]">>, <<"OpArrow", "operator->">>,
      <<"OpDereference", "operator*">>, <<"OpIncrement", "operator++">>,
      <<"OpDecrement", "operator--">>, <<"OpMinus", "operator-">>,
      <<"OpPlus", "operator+">>, <<"OpAddressOf", "operator&">>,
      <<"OpArrowDeref", "operator->*">>, <<"OpDivide", "operator/">>,
      <<"OpModulo", "operator%">>, <<"OpLess", "operator<">>,
      <<"OpLessEqual", "operator<=">>, <<"OpGreater", "operator>">>,
      <<"OpGreaterEqual", "operator>=">>, <<"OpComma", "operator,">>,
      <<"OpCall", "operator()">>, <<"OpComplement", "operator~">>,
      <<"OpXor", "operator^">>, <<"OpBitwiseOr", "operator|">>,
      <<"OpLogicalAnd", "operator&&">>, <<"OpLogicalOr", "operator||">>,
      <<"OpMultiplyAssign", "operator*=">>, <<"OpPlusAssign", "operator+=">>,
      <<"OpMinusAssign", "operator-=">>, <<"OpDivideAssign", "operator/=">>,
      <<"OpModuloAssign", "operator%=">>, <<"OpRightShiftAssign", "operator>>=">>,
      <<"OpLeftShiftAssign", "operator<<=">>, <<"OpAndAssign", "operator&=">>,
      <<"OpOrAssign", "operator|=">>, <<"OpXorAssign", "operator^=">>,
      <<"OpNewArray", "operator new[]">>, <<"OpDeleteArray", "operator delete[]">>,
      <<"OpSpaceship", "operator<=>">>, <<"OpCoAwait", "operator co_await">>,
      <<"OpVFTable", "`vftable'">>, <<"OpVBTable", "`vbtable'">>,
      <<"OpVCall", "`vcall'">>, <<"OpTypeof", "`typeof'">>,
      <<"OpLocalStaticGuard", "`local static guard'">>,
      <<"OpStringLiteral", "`string'">>, <<"OpVBaseDtor", "`vbase destructor'">>,
      <<"OpVectorDeletingDtor", "`vector deleting destructor'">>,
      <<"OpDefaultCtorClosure", "`default constructor closure'">>,
      <<"OpScalarDeletingDtor", "`scalar deleting destructor'">>,
      <<"OpVectorCtorIterator", "`vector constructor iterator'">>,
      <<"OpVectorDtorIterator", "`vector destructor iterator'">>,
      <<"OpVectorVbaseCtorIterator", "`vector vbase constructor iterator'">>,
      <<"OpVirtualDisplacementMap", "`virtual displacement map'">>,
      <<"OpEHVectorCtorIterator", "`eh vector constructor iterator'">>,
      <<"OpEHVectorDtorIterator", "`eh vector destructor iterator'">>,
      <<"OpEHVectorVbaseCtorIterator", "`eh vector vbase constructor iterator'">>,
      <<"OpCopyCtorClosure", "`copy constructor closure'">>,
      <<"OpLocalVFTable", "`local vftable'">>,
      <<"OpLocalVFTableCtorClosure", "`local vftable constructor closure'">>,
      <<"OpRTTITypeDescriptor", "`RTTI Type Descriptor'">>,
      <<"OpRTTIBaseClassArray", "`RTTI Base Class Array'">>,
      <<"OpRTTIBaseClassDescriptor", "`RTTI Base Class Descriptor'">>,
      <<"OpRTTIClassHierarchyDescriptor", "`RTTI Class Hierarchy Descriptor'">>,
      <<"OpRTTICompleteObjectLocator", "`RTTI Complete Object Locator'">>>>

primitiveNames ==
    <<<<"PrimVoid", "void">>, <<"PrimBool", "bool">>, <<"PrimChar", "char">>,
      <<"PrimSignedChar", "signed char">>, <<"PrimUnsignedChar", "unsigned char">>,
      <<"PrimShort", "short">>, <<"PrimUnsignedShort", "unsigned short">>,
      <<"PrimInt", "int">>, <<"PrimUnsignedInt", "unsigned int">>,
      <<"PrimLong", "long">>, <<"PrimUnsignedLong", "unsigned long">>,
      <<"PrimInt64", "__int64">>, <<"PrimUnsignedInt64", "unsigned __int64">>,
      <<"PrimInt128", "__int128">>, <<"PrimUnsignedInt128", "unsigned __int128">>,
      <<"PrimFloat", "float">>, <<"PrimDouble", "double">>,
      <<"PrimLongDouble", "long double">>, <<"PrimWChar", "wchar_t">>,
      <<"PrimChar8", "char8_t">>, <<"PrimChar16", "char16_t">>,
      <<"PrimChar32", "char32_t">>, <<"PrimNullptr", "std::nullptr_t">>,
      <<"PrimAuto", "auto">>, <<"PrimDecltypeAuto", "decltype(auto)">>>>

callingConvNames ==
    <<<<"CallingConvCdecl", "__cdecl">>, <<"CallingConvPascal", "__pascal">>,
      <<"CallingConvThiscall", "__thiscall">>, <<"CallingConvStdcall", "__stdcall">>,
      <<"CallingConvFastcall", "__fastcall">>,
      <<"CallingConvVectorcall", "__vectorcall">>,
      <<"CallingConvClrcall", "__clrcall">>, <<"CallingConvEabi", "__eabi">>,
      <<"CallingConvSwift", "__swiftcall">>,
      <<"CallingConvSwiftAsync", "__swiftasynccall">>>>

tagNames ==
    <<<<"TagUnion", "union">>, <<"TagStruct", "struct">>, <<"TagClass", "class">>,
      <<"TagEnum", "enum">>>>

accessNames ==
    <<<<"AccessPrivate", "private">>, <<"AccessProtected", "protected">>,
      <<"AccessPublic", "public">>>>

NoQuals == [IsConst |-> FALSE, IsVolatile |-> FALSE]

\* Qualifiers.String(); the parser sets neither IsRestrict nor IsUnaligned
Qualifiers_String(q) ==
    strings_Join((IF q.IsConst THEN <<"const">> ELSE <<>>)
                   \o (IF q.IsVolatile THEN <<"volatile">> ELSE <<>>), " ")

Qualifiers_IsEmpty(q) == ~q.IsConst /\ ~q.IsVolatile

\* the parameter list between the parentheses of FunctionType.String and
\* FunctionSymbol.String
ParameterList(params, isVariadic) ==
    strings_Join(params, ", ")
      \o (IF isVariadic THEN (IF Len(params) > 0 THEN ", " ELSE "") \o "..." ELSE "")

\* the calling convention written whichever it is
CallingConvPrefix_Always(cc) ==
    IF Case(callingConvNames, cc) # "" THEN Case(callingConvNames, cc) \o " " ELSE ""

\* the calling convention as FunctionType.String and FunctionSymbol.String
\* write it
CallingConvPrefix(cc) ==
    IF cc # "CallingConvCdecl" /\ Case(callingConvNames, cc) # ""
    THEN Case(callingConvNames, cc) \o " " ELSE ""

\* Node.String()
RECURSIVE String(_)
String(n) ==
    CASE n.kind = "QualifiedName" ->
           strings_Join([i \in 1..Len(n.Components) |-> String(n.Components[i])], "::")
      [] n.kind = "Identifier" -> n.Name
      [] n.kind = "Operator" ->
           IF Case(operatorNames, n.Op) # "" THEN Case(operatorNames, n.Op)
           ELSE "operator?"
      [] n.kind = "ConversionOperator" -> "operator " \o String(n.TargetType)
      [] n.kind = "TemplateInstantiation" ->
           String(n.Name) \o "<"
             \o strings_Join([i \in 1..Len(n.Arguments) |-> String(n.Arguments[i])], ", ")
             \o ">"
      [] n.kind = "PrimitiveType" ->
           IF Case(primitiveNames, n.Type) # "" THEN Case(primitiveNames, n.Type) ELSE "?"
      [] n.kind = "PointerType" ->
           String(n.Pointee)
             \o (CASE n.Affinity = "AffinityPointer" -> " *"
                   [] n.Affinity = "AffinityReference" -> " &"
                   [] n.Affinity = "AffinityRValueReference" -> " &&")
             \o (IF ~Qualifiers_IsEmpty(n.Quals)
                 THEN " " \o Qualifiers_String(n.Quals) ELSE "")
      [] n.kind = "ArrayType" ->
           String(n.ElementType)
             \o Concat([i \in 1..Len(n.Dimensions) |->
                          "[" \o Sprintf_u64(n.Dimensions[i]) \o "]"])
      [] n.kind = "FunctionType" ->
           (IF ~IsNil(n.ReturnType) THEN String(n.ReturnType) \o " " ELSE "")
             \o CallingConvPrefix(n.CallingConv)
             \o "("
             \o ParameterList([i \in 1..Len(n.Parameters) |-> String(n.Parameters[i])],
                              n.IsVariadic)
             \o ")"
      [] n.kind = "TagType" -> Case(tagNames, n.Tag) \o " " \o String(n.Name)
      [] n.kind = "FunctionSymbol" ->
           (IF n.AccessSpec # "AccessNone"
            THEN Case(accessNames, n.AccessSpec) \o ": " ELSE "")
             \o (IF n.IsStatic THEN "static " ELSE "")
             \o (IF n.IsVirtual THEN "virtual " ELSE "")
             \o (IF ~IsNil(n.Signature)
                 THEN (IF ~IsNil(n.Signature.ReturnType)
                       THEN String(n.Signature.ReturnType) \o " " ELSE "")
                        \o CallingConvPrefix(n.Signature.CallingConv)
                 ELSE "")
             \o String(n.Name)
             \o (IF ~IsNil(n.Signature)
                 THEN "("
                        \o ParameterList([i \in 1..Len(n.Signature.Parameters) |->
                                            String(n.Signature.Parameters[i])],
                                         n.Signature.IsVariadic)
                        \o ")"
                 ELSE "")
      [] n.kind = "VariableSymbol" ->
           (IF n.AccessSpec # "AccessNone"
            THEN Case(accessNames, n.AccessSpec) \o ": " ELSE "")
             \o (IF n.IsStatic THEN "static " ELSE "")
             \o (IF ~IsNil(n.Type) THEN String(n.Type) \o " " ELSE "")
             \o String(n.Name)
      [] n.kind = "IntegerLiteral" -> Sprintf_d(n.Value)

\* newDemangler(input); errs (the errors raised so far) and scopes (the
\* template instantiations left so far: the back-reference ring before, at
\* the start and after) keep the history of the parse
newDemangler(input) ==
    [input |-> input, pos |-> 0,
     nameBackrefs |-> [i \in 1..10 |-> ""], nameBackrefCount |-> 0,
     typeBackrefs |-> [i \in 1..10 |-> NilNode], typeBackrefCount |-> 0,
     templateDepth |-> 0, savedNameBackrefs |-> <<>>,
     errs |-> <<>>, scopes |-> <<>>]

\* what a parse function returns beside the demangler it leaves
Parsed(d, node) == [d |-> d, node |-> node, err |-> NoErr]

\* a parse function raising the error e
Fails(d, e) == [d |-> [d EXCEPT !.errs = Append(@, e)], node |-> NilNode, err |-> e]

\* the zero byte peek and consume return at the end of the input
NUL == "NUL"

peek(d) == IF d.pos >= Len(d.input) THEN NUL ELSE d.input[d.pos + 1]

\* d.pos += n
Advance(d, n) == [d EXCEPT !.pos = @ + n]

containsBackref(d, s) == \E i \in 1..d.nameBackrefCount : d.nameBackrefs[i] = s

memorizeString(d, s) ==
    IF d.nameBackrefCount < 10 /\ ~containsBackref(d, s)
    THEN [d EXCEPT !.nameBackrefs[d.nameBackrefCount + 1] = s,
                   !.nameBackrefCount = @ + 1]
    ELSE d

memorizeType(d, t) ==
    IF d.typeBackrefCount < 10
    THEN [d EXCEPT !.typeBackrefs[d.typeBackrefCount + 1] = t,
                   !.typeBackrefCount = @ + 1]
    ELSE d

pushBackrefScope(d) ==
    [d EXCEPT !.savedNameBackrefs =
                  Append(@, [refs |-> d.nameBackrefs, count |-> d.nameBackrefCount]),
              !.nameBackrefCount = 0,
              !.templateDepth = @ + 1]

\* popBackrefScope leaving the ring of the template as it is (a variant of
\* popBackrefScope)
popBackrefScope_KeepRing(d) ==
    IF Len(d.savedNameBackrefs) > 0
    THEN [d EXCEPT !.templateDepth = @ - 1,
                   !.savedNameBackrefs = SubSeq(@, 1, Len(@) - 1)]
    ELSE [d EXCEPT !.templateDepth = @ - 1]

popBackrefScope(d) ==
    IF Len(d.savedNameBackrefs) > 0
    THEN [d EXCEPT !.templateDepth = @ - 1,
                   !.savedNameBackrefs = SubSeq(@, 1, Len(@) - 1),
                   !.nameBackrefCount = d.savedNameBackrefs[Len(d.savedNameBackrefs)].count,
                   !.nameBackrefs = d.savedNameBackrefs[Len(d.savedNameBackrefs)].refs]
    ELSE [d EXCEPT !.templateDepth = @ - 1]

\* the name back-reference ring of d
Ring(d) == [refs |-> d.nameBackrefs, count |-> d.nameBackrefCount]

\* demangler.parseQualifiers(): the demangler and the Qualifiers
parseQualifiers(d) ==
    IF d.pos >= Len(d.input) THEN [d |-> d, quals |-> NoQuals]
    ELSE CASE peek(d) = "A" -> [d |-> Advance(d, 1), quals |-> NoQuals]
           [] peek(d) = "B" -> [d |-> Advance(d, 1),
                                quals |-> [IsConst |-> TRUE, IsVolatile |-> FALSE]]
           [] peek(d) = "C" -> [d |-> Advance(d, 1),
                                quals |-> [IsConst |-> FALSE, IsVolatile |-> TRUE]]
           [] peek(d) = "D" -> [d |-> Advance(d, 1),
                                quals |-> [IsConst |-> TRUE, IsVolatile |-> TRUE]]
           [] OTHER -> [d |-> d, quals |-> NoQuals]

\* the loop of parseNumber over the letters A to P
RECURSIVE HexLoop(_, _)
HexLoop(d, val) ==
    IF ~(d.pos < Len(d.input)) THEN [d |-> d, val |-> val]
    ELSE IF peek(d) = "@" THEN [d |-> Advance(d, 1), val |-> val]
    ELSE IF ~IsIn(peek(d), HexChars) THEN [d |-> d, val |-> val]
    ELSE HexLoop(Advance(d, 1), val * 16 + ValueIn(peek(d), HexChars))

\* demangler.parseNumber(): the demangler and the value (its error is always
\* nil)
parseNumber(d) ==
    With(peek(d) = "?", LAMBDA negative :
      With(IF negative THEN Advance(d, 1) ELSE d, LAMBDA d1 :
        IF IsIn(peek(d1), Tail(DigitChars))
        THEN [d |-> Advance(d1, 1),
              val |-> IF negative THEN 0 - ValueIn(peek(d1), DigitChars)
                      ELSE ValueIn(peek(d1), DigitChars)]
        ELSE IF peek(d1) = "0" THEN [d |-> Advance(d1, 1), val |-> 0]
        ELSE With(HexLoop(d1, 0), LAMBDA h :
               [d |-> h.d, val |-> IF negative THEN 0 - h.val ELSE h.val])))

callingConventions ==
    <<<<"A", "CallingConvCdecl">>, <<"B", "CallingConvCdecl">>,
      <<"C", "CallingConvPascal">>, <<"D", "CallingConvPascal">>,
      <<"E", "CallingConvThiscall">>, <<"F", "CallingConvThiscall">>,
      <<"G", "CallingConvStdcall">>, <<"H", "CallingConvStdcall">>,
      <<"I", "CallingConvFastcall">>, <<"J", "CallingConvFastcall">>,
      <<"M", "CallingConvClrcall">>, <<"N", "CallingConvClrcall">>,
      <<"O", "CallingConvEabi">>, <<"P", "CallingConvEabi">>,
      <<"Q", "CallingConvVectorcall">>, <<"S", "CallingConvSwift">>,
      <<"W", "CallingConvSwiftAsync">>>>

\* demangler.parseCallingConvention(): the demangler and the convention (its
\* error is always nil)
parseCallingConvention(d) ==
    IF d.pos >= Len(d.input) THEN [d |-> d, cc |-> "CallingConvCdecl"]
    ELSE IF Case(callingConventions, peek(d)) # ""
    THEN [d |-> Advance(d, 1), cc |-> Case(callingConventions, peek(d))]
    ELSE [d |-> d, cc |-> "CallingConvCdecl"]

\* the operators of parseSpecialName
specialNames ==
    <<<<"2", "OpNew">>, <<"3", "OpDelete">>, <<"4", "OpAssign">>,
      <<"5", "OpRightShift">>, <<"6", "OpLeftShift">>, <<"7", "OpLogicalNot">>,
      <<"8", "OpEqual">>, <<"9", "OpNotEqual">>, <<"A", "OpSubscript">>,
      <<"C", "OpArrow">>, <<"D", "OpDereference">>, <<"E", "OpIncrement">>,
      <<"F", "OpDecrement">>, <<"G", "OpMinus">>, <<"H", "OpPlus">>,
      <<"I", "OpAddressOf">>, <<"J", "OpArrowDeref">>, <<"K", "OpDivide">>,
      <<"L", "OpModulo">>, <<"M", "OpLess">>, <<"N", "OpLessEqual">>,
      <<"O", "OpGreater">>, <<"P", "OpGreaterEqual">>, <<"Q", "OpComma">>,
      <<"R", "OpCall">>, <<"S", "OpComplement">>, <<"T", "OpXor">>,
      <<"U", "OpBitwiseOr">>, <<"V", "OpLogicalAnd">>, <<"W", "OpLogicalOr">>,
      <<"X", "OpMultiplyAssign">>, <<"Y", "OpPlusAssign">>, <<"Z", "OpMinusAssign">>>>

\* the operators of parseExtendedOperator
extendedOperators ==
    <<<<"0", "OpDivideAssign">>, <<"1", "OpModuloAssign">>,
      <<"2", "OpRightShiftAssign">>, <<"3", "OpLeftShiftAssign">>,
      <<"4", "OpAndAssign">>, <<"5", "OpOrAssign">>, <<"6", "OpXorAssign">>,
      <<"U", "OpNewArray">>, <<"V", "OpDeleteArray">>>>

\* the operators of parseExtendedSpecial
extendedSpecials ==
    <<<<"7", "OpVFTable">>, <<"8", "OpVBTable">>, <<"A", "OpTypeof">>,
      <<"B", "OpLocalStaticGuard">>, <<"D", "OpVBaseDtor">>,
      <<"E", "OpVectorDeletingDtor">>, <<"F", "OpDefaultCtorClosure">>,
      <<"G", "OpScalarDeletingDtor">>, <<"H", "OpVectorCtorIterator">>,
      <<"I", "OpVectorDtorIterator">>, <<"J", "OpVectorVbaseCtorIterator">>,
      <<"K", "OpVirtualDisplacementMap">>, <<"L", "OpEHVectorCtorIterator">>,
      <<"M", "OpEHVectorDtorIterator">>, <<"N", "OpEHVectorVbaseCtorIterator">>,
      <<"O", "OpCopyCtorClosure">>, <<"S", "OpLocalVFTable">>,
      <<"T", "OpLocalVFTableCtorClosure">>>>

\* the operators of parseRTTI
rttiOperators ==
    <<<<"0", "OpRTTITypeDescriptor">>, <<"1", "OpRTTIBaseClassDescriptor">>,
      <<"2", "OpRTTIBaseClassArray">>, <<"3", "OpRTTIClassHierarchyDescriptor">>,
      <<"4", "OpRTTICompleteObjectLocator">>>>

\* the primitive types of parseType and of parseExtendedType
primitiveCodes ==
    <<<<"X", "PrimVoid">>, <<"C", "PrimSignedChar">>, <<"D", "PrimChar">>,
      <<"E", "PrimUnsignedChar">>, <<"F", "PrimShort">>, <<"G", "PrimUnsignedShort">>,
      <<"H", "PrimInt">>, <<"I", "PrimUnsignedInt">>, <<"J", "PrimLong">>,
      <<"K", "PrimUnsignedLong">>, <<"M", "PrimFloat">>, <<"N", "PrimDouble">>,
      <<"O", "PrimLongDouble">>>>

extendedTypeCodes ==
    <<<<"N", "PrimBool">>, <<"J", "PrimInt64">>, <<"K", "PrimUnsignedInt64">>,
      <<"W", "PrimWChar">>, <<"S", "PrimChar16">>, <<"U", "PrimChar32">>>>

\* demangler.parseExtendedType()
parseExtendedType(d) ==
    IF d.pos >= Len(d.input) THEN Fails(d, ErrDemangleUnexpectedEnd)
    ELSE IF Case(extendedTypeCodes, peek(d)) # ""
    THEN Parsed(Advance(d, 1),
                [kind |-> "PrimitiveType", Type |-> Case(extendedTypeCodes, peek(d))])
    ELSE Fails(d, ErrUnknownType)

\* a parse function that reads one character and looks it up in a table of
\* operators: parseExtendedOperator, and the switches of parseSpecialName
OperatorFrom(table, d) ==
    IF Case(table, peek(d)) # ""
    THEN Parsed(Advance(d, 1), [kind |-> "Operator", Op |-> Case(table, peek(d))])
    ELSE Fails(d, ErrUnknownOperator)

\* demangler.parseExtendedOperator()
parseExtendedOperator(d) ==
    IF d.pos >= Len(d.input) THEN Fails(d, ErrDemangleUnexpectedEnd)
    ELSE OperatorFrom(extendedOperators, d)

\* the index of the first '@' at or after pos, or len(input)
RECURSIVE NameEnd(_, _)
NameEnd(input, pos) ==
    IF pos < Len(input) /\ input[pos + 1] # "@" THEN NameEnd(input, pos + 1) ELSE pos

\* demangler.parseSimpleName()
parseSimpleName(d) ==
    With(NameEnd(d.input, d.pos), LAMBDA end :
      IF end = d.pos THEN Fails(d, ErrInvalidMangled)
      ELSE With(Concat(SubSeq(d.input, d.pos + 1, end)), LAMBDA name :
             Parsed(memorizeString([d EXCEPT !.pos = end], name),
                    [kind |-> "Identifier", Name |-> name])))

\* a call of parseType, parseFunctionType or parseFullyQualifiedName, the
\* methods through which the parse functions call one another
RECURSIVE Call(_, _)

\* the pointer and reference types of parseType once the qualifiers are
\* read: the pointee, then the PointerType
PointerTo(d, affinity, quals, is64Bit) ==
    With(Call("parseType", d), LAMBDA pointee :
      IF pointee.err # NoErr THEN pointee
      ELSE Parsed(pointee.d,
                  [kind |-> "PointerType", Pointee |-> pointee.node,
                   Affinity |-> affinity, Quals |-> quals, Is64Bit |-> is64Bit]))

\* demangler.parsePointerType(affinity)
parsePointerType(d, affinity) ==
    With(parseQualifiers(d), LAMBDA q :
      IF peek(q.d) = "E" THEN PointerTo(Advance(q.d, 1), affinity, q.quals, TRUE)
      ELSE PointerTo(q.d, affinity, q.quals, FALSE))

\* demangler.parseConstPointerType(), parseVolatilePointerType(),
\* parseConstVolatilePointerType(), parseVolatileReferenceType() and the
\* case $$R of parseDollarType: the qualifiers of the code are added to
\* those read
parseQualifiedPointerType(d, affinity, isConst, isVolatile) ==
    With(parseQualifiers(d), LAMBDA q :
      PointerTo(q.d, affinity,
                [IsConst |-> q.quals.IsConst \/ isConst,
                 IsVolatile |-> q.quals.IsVolatile \/ isVolatile], FALSE))

\* demangler.parseFunctionPointerType()
parseFunctionPointerType(d) == Call("parseFunctionType", d)

\* demangler.parseDollarType()
parseDollarType(d) ==
    IF d.pos >= Len(d.input) THEN Fails(d, ErrDemangleUnexpectedEnd)
    ELSE CASE peek(d) = "$" /\ d.pos + 1 < Len(d.input) ->
                With(Advance(d, 2), LAMBDA d2 :
                  CASE d.input[d.pos + 2] = "Q" ->
                         parsePointerType(d2, "AffinityRValueReference")
                    [] d.input[d.pos + 2] = "R" ->
                         parseQualifiedPointerType(d2, "AffinityRValueReference",
                                                   FALSE, TRUE)
                    [] d.input[d.pos + 2] = "A" -> parseFunctionPointerType(d2)
                    [] d.input[d.pos + 2] = "C" -> Call("parseType", d2)
                    [] OTHER -> Fails(Advance(d, 1), ErrUnknownType))
           [] peek(d) = "$" /\ ~(d.pos + 1 < Len(d.input)) -> Fails(d, ErrUnknownType)
           [] peek(d) = "A" -> parseFunctionPointerType(Advance(d, 1))
           [] peek(d) = "Q" -> parsePointerType(Advance(d, 1), "AffinityRValueReference")
           [] OTHER -> Fails(d, ErrUnknownType)

\* demangler.parseTagType(tag)
parseTagType(d, tag) ==
    With(Call("parseFullyQualifiedName", d), LAMBDA name :
      IF name.err # NoErr THEN name
      ELSE Parsed(name.d, [kind |-> "TagType", Tag |-> tag, Name |-> name.node]))

\* demangler.parseEnumType()
parseEnumType(d) ==
    parseTagType(IF d.pos < Len(d.input) THEN Advance(d, 1) ELSE d, "TagEnum")

\* the loop of parseArrayType: the demangler and the dimensions
RECURSIVE ArrayDimensions(_, _)
ArrayDimensions(d, dims) ==
    IF ~(d.pos < Len(d.input)) THEN [d |-> d, dims |-> dims]
    ELSE With(parseNumber(d), LAMBDA dim :
           IF peek(dim.d) # "_" THEN [d |-> dim.d, dims |-> Append(dims, dim.val)]
           ELSE ArrayDimensions(Advance(dim.d, 1), Append(dims, dim.val)))

\* demangler.parseArrayType()
parseArrayType(d) ==
    With(ArrayDimensions(d, <<>>), LAMBDA a :
      With(Call("parseType", a.d), LAMBDA elemType :
        IF elemType.err # NoErr THEN elemType
        ELSE Parsed(elemType.d, [kind |-> "ArrayType", ElementType |-> elemType.node,
                                 Dimensions |-> a.dims])))

\* the switch of parseType over the character c at d.pos
TypeSwitch(d, c) ==
    CASE Case(primitiveCodes, c) # "" ->
           Parsed(Advance(d, 1), [kind |-> "PrimitiveType", Type |-> Case(primitiveCodes, c)])
      [] c = "_" -> parseExtendedType(Advance(d, 1))
      [] c = "P" -> parsePointerType(Advance(d, 1), "AffinityPointer")
      [] c = "Q" -> parseQualifiedPointerType(Advance(d, 1), "AffinityPointer", TRUE, FALSE)
      [] c = "R" -> parseQualifiedPointerType(Advance(d, 1), "AffinityPointer", FALSE, TRUE)
      [] c = "S" -> parseQualifiedPointerType(Advance(d, 1), "AffinityPointer", TRUE, TRUE)
      [] c = "A" -> parsePointerType(Advance(d, 1), "AffinityReference")
      [] c = "B" -> parseQualifiedPointerType(Advance(d, 1), "AffinityReference",
                                              FALSE, TRUE)
      [] c = "$" -> parseDollarType(Advance(d, 1))
      [] c = "T" -> parseTagType(Advance(d, 1), "TagUnion")
      [] c = "U" -> parseTagType(Advance(d, 1), "TagStruct")
      [] c = "V" -> parseTagType(Advance(d, 1), "TagClass")
      [] c = "W" -> parseEnumType(Advance(d, 1))
      [] c = "Y" -> parseArrayType(Advance(d, 1))
      [] OTHER -> Fails(d, ErrUnknownType)

\* demangler.parseType()
parseType(d) ==
    IF d.pos >= Len(d.input) THEN Fails(d, ErrDemangleUnexpectedEnd)
    ELSE IF IsIn(peek(d), DigitChars)
    THEN IF ValueIn(peek(d), DigitChars) >= d.typeBackrefCount
         THEN Fails(Advance(d, 1), ErrInvalidBackref)
         ELSE Parsed(Advance(d, 1), d.typeBackrefs[ValueIn(peek(d), DigitChars) + 1])
    ELSE With(TypeSwitch(d, peek(d)), LAMBDA t :
           IF t.err # NoErr THEN t
           ELSE IF ~IsNil(t.node) /\ t.node.kind # "PrimitiveType"
           THEN Parsed(memorizeType(t.d, t.node), t.node)
           ELSE t)

\* the loop of parseParameters: the demangler, the parameters and isVariadic
RECURSIVE ParametersLoop(_, _)
ParametersLoop(d, params) ==
    IF ~(d.pos < Len(d.input)) THEN [d |-> d, params |-> params, isVariadic |-> FALSE]
    ELSE IF peek(d) = "@"
    THEN [d |-> Advance(d, 1), params |-> params, isVariadic |-> FALSE]
    ELSE IF peek(d) = "Z"
    THEN [d |-> Advance(d, 1), params |-> params, isVariadic |-> TRUE]
    ELSE With(Call("parseType", d), LAMBDA param :
           IF param.err # NoErr
           THEN [d |-> param.d, params |-> params, isVariadic |-> FALSE]
           ELSE ParametersLoop(param.d, Append(params, param.node)))

\* demangler.parseParameters() (its error is always nil)
parseParameters(d) ==
    IF peek(d) = "X" THEN [d |-> Advance(d, 1), params |-> <<>>, isVariadic |-> FALSE]
    ELSE ParametersLoop(d, <<>>)

\* parseFunctionType once the calling convention and the return type are
\* read
FunctionTypeOf(d, cc, retType) ==
    With(parseParameters(d), LAMBDA p :
      Parsed(p.d, [kind |-> "FunctionType", CallingConv |-> cc, ReturnType |-> retType,
                   Parameters |-> p.params, IsVariadic |-> p.isVariadic,
                   Quals |-> NoQuals]))

\* demangler.parseFunctionType()
parseFunctionType(d) ==
    With(parseCallingConvention(d), LAMBDA c :
      IF peek(c.d) # "@"
      THEN With(Call("parseType", c.d), LAMBDA retType :
             FunctionTypeOf(retType.d, c.cc,
                            IF retType.err = NoErr THEN retType.node ELSE NilNode))
      ELSE FunctionTypeOf(Advance(c.d, 1), c.cc, NilNode))

\* demangler.parseConversionOperator()
parseConversionOperator(d) ==
    With(Call("parseType", d), LAMBDA targetType :
      IF targetType.err # NoErr THEN targetType
      ELSE Parsed(targetType.d,
                  [kind |-> "ConversionOperator", TargetType |-> targetType.node]))

\* demangler.parseSpecialName()
parseSpecialName(d) ==
    IF d.pos >= Len(d.input) THEN Fails(d, ErrDemangleUnexpectedEnd)
    ELSE IF peek(d) = "B" THEN parseConversionOperator(Advance(d, 1))
    ELSE IF peek(d) = "_" THEN parseExtendedOperator(Advance(d, 1))
    ELSE OperatorFrom(specialNames, d)

\* demangler.parseTemplateNonTypeArg()
parseTemplateNonTypeArg(d) ==
    IF d.pos >= Len(d.input) THEN Fails(d, ErrDemangleUnexpectedEnd)
    ELSE IF peek(d) = "0"
    THEN With(parseNumber(Advance(d, 1)), LAMBDA val :
           Parsed(val.d, [kind |-> "IntegerLiteral", Value |-> val.val]))
    ELSE IF peek(d) \in {"1", "2", "D", "E", "F", "G", "H", "I", "Q", "S"}
    THEN Parsed(Advance(d, 1), [kind |-> "Identifier", Name |-> "?"])
    ELSE Call("parseType", d)

\* demangler.parseTemplateArg()
parseTemplateArg(d) ==
    IF peek(d) = "$" THEN parseTemplateNonTypeArg(Advance(d, 1)) ELSE Call("parseType", d)

\* the loop of parseTemplateInstantiation over the template arguments
RECURSIVE TemplateArgs(_, _)
TemplateArgs(d, args) ==
    IF ~(d.pos < Len(d.input) /\ peek(d) # "@") THEN [d |-> d, args |-> args]
    ELSE With(parseTemplateArg(d), LAMBDA arg :
           IF arg.err # NoErr THEN [d |-> arg.d, args |-> args]
           ELSE TemplateArgs(arg.d, Append(args, arg.node)))

\* d.pos++ when the character at d.pos is '@'
SkipAt(d) == IF d.pos < Len(d.input) /\ d.input[d.pos + 1] = "@" THEN Advance(d, 1) ELSE d

\* parseTemplateInstantiation between pushBackrefScope and the deferred
\* popBackrefScope
TemplateBody(d) ==
    With(parseSimpleName(d), LAMBDA nameNode :
      IF nameNode.err # NoErr THEN nameNode
      ELSE With(TemplateArgs(SkipAt(nameNode.d), <<>>), LAMBDA a :
             Parsed(SkipAt(a.d), [kind |-> "TemplateInstantiation",
                                  Name |-> nameNode.node, Arguments |-> a.args])))

\* demangler.parseTemplateInstantiation(); the ring before the push, after
\* it and after the pop are added to scopes
parseTemplateInstantiation(d) ==
    With(pushBackrefScope(Advance(d, 2)), LAMBDA pushed :
      With(TemplateBody(pushed), LAMBDA body :
        With(popBackrefScope(body.d), LAMBDA popped :
          [body EXCEPT !.d =
             [popped EXCEPT !.scopes =
                Append(@, [before |-> Ring(d), start |-> Ring(pushed),
                           end |-> Ring(body.d), after |-> Ring(popped),
                           depth |-> pushed.templateDepth,
                           err |-> body.err])]])))

\* demangler.parseNameFragment()
parseNameFragment(d) ==
    IF d.pos >= Len(d.input) THEN Fails(d, ErrDemangleUnexpectedEnd)
    ELSE IF IsIn(peek(d), DigitChars)
    THEN IF ValueIn(peek(d), DigitChars) >= d.nameBackrefCount
         THEN Fails(Advance(d, 1), ErrInvalidBackref)
         ELSE Parsed(Advance(d, 1),
                     [kind |-> "Identifier",
                      Name |-> d.nameBackrefs[ValueIn(peek(d), DigitChars) + 1]])
    ELSE IF peek(d) = "?" /\ d.pos + 1 < Len(d.input) /\ d.input[d.pos + 2] = "$"
    THEN parseTemplateInstantiation(d)
    ELSE IF peek(d) = "?" THEN parseSpecialName(Advance(d, 1))
    ELSE parseSimpleName(d)

\* the loop of parseFullyQualifiedName
RECURSIVE NameComponents(_, _)
NameComponents(d, components) ==
    IF ~(d.pos < Len(d.input)) THEN Parsed(d, components)
    ELSE IF peek(d) = "@"
    THEN IF peek(Advance(d, 1)) = "@" THEN Parsed(Advance(d, 2), components)
         ELSE NameComponents(Advance(d, 1), components)
    ELSE With(parseNameFragment(d), LAMBDA part :
           IF part.err # NoErr THEN part
           ELSE NameComponents(part.d, Append(components, part.node)))

\* demangler.parseFullyQualifiedName()
parseFullyQualifiedName(d) ==
    With(NameComponents(d, <<>>), LAMBDA c :
      IF c.err # NoErr THEN c
      ELSE Parsed(c.d, [kind |-> "QualifiedName", Components |-> Reverse(c.node)]))

Call(method, d) ==
    CASE method = "parseType" -> parseType(d)
      [] method = "parseFunctionType" -> parseFunctionType(d)
      [] method = "parseFullyQualifiedName" -> parseFullyQualifiedName(d)

accessOfFunction ==
    <<<<"A", "AccessPrivate">>, <<"B", "AccessPrivate">>, <<"C", "AccessPrivate">>,
      <<"D", "AccessPrivate">>, <<"E", "AccessPrivate">>, <<"F", "AccessPrivate">>,
      <<"G", "AccessPrivate">>, <<"H", "AccessPrivate">>, <<"I", "AccessProtected">>,
      <<"J", "AccessProtected">>, <<"K", "AccessProtected">>,
      <<"L", "AccessProtected">>, <<"M", "AccessProtected">>,
      <<"N", "AccessProtected">>, <<"O", "AccessProtected">>,
      <<"P", "AccessProtected">>, <<"Q", "AccessPublic">>, <<"R", "AccessPublic">>,
      <<"S", "AccessPublic">>, <<"T", "AccessPublic">>, <<"U", "AccessPublic">>,
      <<"V", "AccessPublic">>, <<"W", "AccessPublic">>, <<"X", "AccessPublic">>>>

\* demangler.parseFunctionEncoding(name)
parseFunctionEncoding(d, name) ==
    IF d.pos >= Len(d.input) THEN Fails(d, ErrDemangleUnexpectedEnd)
    ELSE With(peek(d), LAMBDA c :
           With(Call("parseFunctionType", Advance(d, 1)), LAMBDA funcType :
             Parsed(funcType.d,
                    [kind |-> "FunctionSymbol", Name |-> name,
                     Signature |-> IF funcType.err # NoErr THEN NilNode ELSE funcType.node,
                     AccessSpec |-> IF Case(accessOfFunction, c) # ""
                                    THEN Case(accessOfFunction, c) ELSE "AccessNone",
                     IsStatic |-> c \in {"C", "D", "K", "L", "S", "T"},
                     IsVirtual |-> c \in {"E", "F", "M", "N", "U", "V"}])))

accessOfVariable ==
    <<<<"0", "AccessPrivate">>, <<"1", "AccessProtected">>, <<"2", "AccessPublic">>>>

\* demangler.parseVariableEncoding(name)
parseVariableEncoding(d, name) ==
    IF d.pos >= Len(d.input) THEN Fails(d, ErrDemangleUnexpectedEnd)
    ELSE With(peek(d), LAMBDA c :
           With(Call("parseType",
                     IF c \in {"0", "1", "2", "3", "4"} THEN Advance(d, 1) ELSE d),
                LAMBDA varType :
             Parsed(varType.d,
                    [kind |-> "VariableSymbol", Name |-> name,
                     Type |-> IF varType.err # NoErr THEN NilNode ELSE varType.node,
                     AccessSpec |-> IF Case(accessOfVariable, c) # ""
                                    THEN Case(accessOfVariable, c) ELSE "AccessNone",
                     IsStatic |-> c \in {"0", "1", "2"}])))

\* demangler.parseEncoding(name)
parseEncoding(d, name) ==
    IF d.pos >= Len(d.input) THEN Parsed(d, name)
    ELSE IF IsIn(peek(d), HexChars) \/ peek(d) \in {"Q", "R", "S", "T", "U", "V", "W", "X", "Y"}
    THEN parseFunctionEncoding(d, name)
    ELSE IF IsIn(peek(d), DigitChars) THEN parseVariableEncoding(d, name)
    ELSE Parsed(d, name)

\* demangler.parseCtorDtor(op): with no component in the name the
\* assignment to name.Components[len(name.Components)-1] panics
parseCtorDtor(d, op) ==
    With(Call("parseFullyQualifiedName", d), LAMBDA name :
      IF name.err # NoErr THEN name
      ELSE IF Len(name.node.Components) = 0
      THEN [d |-> name.d, node |-> NilNode, err |-> IndexPanic]
      ELSE With(String(name.node.Components[Len(name.node.Components)]),
                LAMBDA className :
             parseEncoding(name.d,
               [name.node EXCEPT !.Components[Len(name.node.Components)] =
                  [kind |-> "Identifier",
                   Name |-> IF op = "OpDestructor" THEN "~" \o className
                            ELSE className]])))

\* parseExtendedSpecial and parseRTTI once the operator is read: the class
\* name, with the operator appended
NameWithOperator(d, op) ==
    With(Call("parseFullyQualifiedName", d), LAMBDA name :
      IF name.err # NoErr THEN name
      ELSE Parsed(name.d,
                  [name.node EXCEPT !.Components =
                     Append(@, [kind |-> "Operator", Op |-> op])]))

\* demangler.parseRTTI()
parseRTTI(d) ==
    IF d.pos >= Len(d.input) THEN Fails(d, ErrDemangleUnexpectedEnd)
    ELSE IF Case(rttiOperators, peek(d)) # ""
    THEN NameWithOperator(Advance(d, 1), Case(rttiOperators, peek(d)))
    ELSE Fails(d, ErrUnknownOperator)

\* demangler.parseExtendedSpecial()
parseExtendedSpecial(d) ==
    IF d.pos >= Len(d.input) THEN Fails(d, ErrDemangleUnexpectedEnd)
    ELSE IF peek(d) = "R" THEN parseRTTI(Advance(d, 1))
    ELSE IF Case(extendedSpecials, peek(d)) # ""
    THEN NameWithOperator(Advance(d, 1), Case(extendedSpecials, peek(d)))
    ELSE Fails(d, ErrUnknownOperator)

\* demangler.parseSpecialIntrinsic()
parseSpecialIntrinsic(d) ==
    With(Advance(d, 1), LAMBDA d1 :
      IF d1.pos >= Len(d1.input) THEN Fails(d1, ErrDemangleUnexpectedEnd)
      ELSE CASE peek(d1) = "0" -> parseCtorDtor(Advance(d1, 1), "OpConstructor")
             [] peek(d1) = "1" -> parseCtorDtor(Advance(d1, 1), "OpDestructor")
             [] peek(d1) = "_" -> parseExtendedSpecial(Advance(d1, 1))
             [] OTHER -> parseSpecialName(d1))

\* demangler.parse()
parse(d) ==
    With(IF d.pos < Len(d.input) /\ d.input[d.pos + 1] = "?" THEN Advance(d, 1) ELSE d,
         LAMBDA d1 :
      IF peek(d1) = "?" THEN parseSpecialIntrinsic(d1)
      ELSE With(Call("parseFullyQualifiedName", d1), LAMBDA name :
             IF name.err # NoErr THEN name ELSE parseEncoding(name.d, name.node)))

\* demangle.Demangle(decorated): the string, the error, and the demangler
\* the parse has left
Demangle(decorated) ==
    IF Len(decorated) = 0
    THEN [out |-> "", err |-> ErrEmptyInput, d |-> newDemangler(decorated)]
    ELSE IF decorated[1] # "?"
    THEN [out |-> IF decorated[1] = "_" THEN Concat(Tail(decorated))
                  ELSE Concat(decorated),
          err |-> NoErr, d |-> newDemangler(decorated)]
    ELSE With(parse(newDemangler(decorated)), LAMBDA r :
           IF r.err = IndexPanic THEN [out |-> "", err |-> IndexPanic, d |-> r.d]
           ELSE IF r.err # NoErr
           THEN [out |-> Concat(decorated), err |-> r.err, d |-> r.d]
           ELSE [out |-> String(r.node), err |-> NoErr, d |-> r.d])

\* demangle.DemangleSimple(decorated): a panic goes on to the caller
DemangleSimple(decorated) ==
    With(Demangle(decorated), LAMBDA r :
      IF r.err = IndexPanic THEN [out |-> "", panic |-> TRUE]
      ELSE IF r.err # NoErr THEN [out |-> Concat(decorated), panic |-> FALSE]
      ELSE [out |-> r.out, panic |-> FALSE])

----------------------------------------------------------------------------
(* SpecDemangle: a symbol whose name is a decorated name, a truncation of   *)
(* one, or any short string over the characters the grammar gives a         *)
(* meaning; Demangle is called on the name directly, and DemangledName on   *)
(* the symbol, twice.                                                        *)

\* the longest of the names made of any characters of NameChars
MaxInput == 3

NameChars == {"?", "@", "$", "_", "0", "f", "H", "Y"}

\* decorated names of functions, variables, members of templates,
\* constructors, destructors, operators and tables, and two C names
Samples ==
    <<
      \* ?f@@YAHH@Z
      <<"?", "f", "@", "@", "Y", "A", "H", "H", "@", "Z">>,
      \* ?f@@YGHH@Z
      <<"?", "f", "@", "@", "Y", "G", "H", "H", "@", "Z">>,
      \* ?x@@3HA
      <<"?", "x", "@", "@", "3", "H", "A">>,
      \* ?f@?$C@H@@QAEXXZ
      <<"?", "f", "@", "?", "$", "C", "@", "H", "@", "@", "Q", "A", "E", "X", "X", "Z">>,
      \* ?f@?$C@V?$D@H@@@@QAEXXZ
      <<"?", "f", "@", "?", "$", "C", "@", "V", "?", "$", "D", "@", "H", "@", "@", "@", "@", "Q", "A", "E", "X", "X", "Z">>,
      \* ?f@?$C@V?$@@
      <<"?", "f", "@", "?", "$", "C", "@", "V", "?", "$", "@", "@">>,
      \* ??0C@@QAE@XZ
      <<"?", "?", "0", "C", "@", "@", "Q", "A", "E", "@", "X", "Z">>,
      \* ??1C@@QAE@XZ
      <<"?", "?", "1", "C", "@", "@", "Q", "A", "E", "@", "X", "Z">>,
      \* ??4C@@QAEAAV0@ABV0@@Z
      <<"?", "?", "4", "C", "@", "@", "Q", "A", "E", "A", "A", "V", "0", "@", "A", "B", "V", "0", "@", "@", "Z">>,
      \* ??_7C@@6B@
      <<"?", "?", "_", "7", "C", "@", "@", "6", "B", "@">>,
      \* ??_R0?AVC@@@8
      <<"?", "?", "_", "R", "0", "?", "A", "V", "C", "@", "@", "@", "8">>,
      \* ?f@?$C@$0A@@@3HA
      <<"?", "f", "@", "?", "$", "C", "@", "$", "0", "A", "@", "@", "@", "3", "H", "A">>,
      \* ?f@@YAXPAY01H@Z
      <<"?", "f", "@", "@", "Y", "A", "X", "P", "A", "Y", "0", "1", "H", "@", "Z">>,
      \* _main
      <<"_", "m", "a", "i", "n">>,
      \* g
      <<"g">>>>

Names ==
    UNION { { SubSeq(Samples[i], 1, n) : n \in 0..Len(Samples[i]) } :
              i \in 1..Len(Samples) }
      \cup UNION { [1..n -> NameChars] : n \in 0..MaxInput }

InitDemangle ==
    /\ symName \in Names
    /\ dem = NoDem
    /\ symbol = NoBaseSymbol
    /\ StreamIdle
    /\ FileIdle
    /\ SymIdle
    /\ ConIdle
    /\ TpiIdle
    /\ DbiIdle
    /\ IterIdle
    /\ TypesIdle
    /\ PubIdle
    /\ ReaderIdle
    /\ CacheIdle
    /\ CloseIdle

\* out, err := demangle.Demangle(name)
CallDemangle ==
    /\ LET r == Demangle(symName)
       IN  dem' = [op |-> "Demangle", out |-> r.out, err |-> r.err,
                   errs |-> r.d.errs, scopes |-> r.d.scopes]
    /\ UNCHANGED <<symName, symbol>>
    /\ UNCHANGED notDemVars

\* s.DemangledName(): the function of demangledOnce.Do runs on the first
\* call; a panic in it leaves the Once done and goes on to the caller
CallDemangledName ==
    /\ symbol.calls < 2
    /\ IF symbol.done
       THEN symbol' = [symbol EXCEPT !.calls = @ + 1, !.ret = symbol.demangledName,
                                     !.panic = FALSE]
       ELSE LET r == DemangleSimple(symName)
            IN  symbol' = [done |-> TRUE, demangledName |-> r.out, calls |-> 1,
                           ret |-> r.out, panic |-> r.panic,
                           errs |-> Demangle(symName).d.errs]
    /\ UNCHANGED <<symName, dem>>
    /\ UNCHANGED notDemVars

NextDemangle ==
    \/ CallDemangle
    \/ CallDemangledName

SpecDemangle == InitDemangle /\ [][NextDemangle]_vars

----------------------------------------------------------------------------
(* SpecCache: threads calling TypeTable.ByIndex at the same time.  A call   *)
(* is three steps: the Load from tt.typeCache, the decoding of the record   *)
(* into a newly allocated Type, and the Store.  The TPI stream holds a      *)
(* pointer record that decodes and one too short to decode; the indices     *)
(* asked for are a simple type, the two records and one past them.          *)

\* the calls of ByIndex the threads make between them
MaxLookups == 3

CacheSource ==
    TpiSource(TPIVersionV80,
              <<[len |-> 10, kind |-> LF_POINTER, data |-> <<116, 0, 0, 0, 12, 0, 0, 0>>],
                [len |-> 2, kind |-> LF_POINTER, data |-> <<>>]>>, 0, 0, 0)

CacheQueries ==
    {SimpleTypeInt32, FirstUserTypeIndex, FirstUserTypeIndex + 1, FirstUserTypeIndex + 2}

InitCache ==
    /\ tpiData = CacheSource
    /\ tpi = ParseStream(CacheSource)
    /\ typeCache = <<>>
    /\ tget = NoTget
    /\ fetched = <<>>
    /\ ttTypeCache = <<>>
    /\ lookup = [t \in Threads |-> NoLookup]
    /\ allocated = <<>>
    /\ given = {}
    /\ replaced = {}
    /\ overlapped = {}
    /\ StreamIdle
    /\ FileIdle
    /\ SymIdle
    /\ ConIdle
    /\ DbiIdle
    /\ IterIdle
    /\ TypesIdle
    /\ PubIdle
    /\ ReaderIdle
    /\ CloseIdle
    /\ DemIdle

\* ByIndex returns typ (0 for nil) and err to thread t
ByIndex_Return(t, index, typ, err) ==
    /\ lookup' = [lookup EXCEPT ![t] = NoLookup]
    /\ given' = given \cup {[index |-> index, typ |-> typ, err |-> err]}

\* thread t calls ByIndex(index): tt.typeCache.Load(index)
ByIndex_Load(t, index) ==
    /\ lookup[t].stage = "idle"
    /\ Len(allocated) + Cardinality(given) < MaxLookups
    /\ IF index \in DOMAIN ttTypeCache
       THEN /\ ByIndex_Return(t, index, ttTypeCache[index], NoErr)
            /\ UNCHANGED overlapped
       ELSE /\ lookup' = [lookup EXCEPT ![t] = [stage |-> "decode", index |-> index,
                                                 typ |-> 0]]
            /\ overlapped' =
                 IF \E u \in Threads \ {t} : lookup[u].stage # "idle" /\ lookup[u].index = index
                 THEN overlapped \cup {index} ELSE overlapped
            /\ UNCHANGED given
    /\ UNCHANGED <<ttTypeCache, allocated, replaced>>
    /\ UNCHANGED tpiVars
    /\ UNCHANGED notCacheVars

\* thread t, past the Load that missed: parseSimpleType, or GetTypeRecord
\* and parseTypeRecord
ByIndex_Parse(t) ==
    /\ lookup[t].stage = "decode"
    /\ LET d == ByIndex_Decode(tpi, typeCache, lookup[t].index)
       IN  /\ typeCache' = d.cache
           /\ IF d.err # NoErr
              THEN /\ ByIndex_Return(t, lookup[t].index, 0, d.err)
                   /\ UNCHANGED allocated
              ELSE /\ allocated' = Append(allocated, lookup[t].index)
                   /\ lookup' = [lookup EXCEPT ![t] = [stage |-> "store",
                                                        index |-> lookup[t].index,
                                                        typ |-> Len(allocated) + 1]]
                   /\ UNCHANGED given
    /\ UNCHANGED <<ttTypeCache, replaced, overlapped>>
    /\ UNCHANGED <<tpiData, tpi, tget, fetched>>
    /\ UNCHANGED notCacheVars

\* thread t: tt.typeCache.Store(index, typ), and the return of typ
ByIndex_Store(t) ==
    /\ lookup[t].stage = "store"
    /\ ttTypeCache' = (lookup[t].index :> lookup[t].typ) @@ ttTypeCache
    /\ replaced' = IF lookup[t].index \in DOMAIN ttTypeCache
                   THEN replaced \cup {lookup[t].index} ELSE replaced
    /\ ByIndex_Return(t, lookup[t].index, lookup[t].typ, NoErr)
    /\ UNCHANGED <<allocated, overlapped>>
    /\ UNCHANGED tpiVars
    /\ UNCHANGED notCacheVars

NextCache ==
    \/ \E t \in Threads, index \in CacheQueries : ByIndex_Load(t, index)
    \/ \E t \in Threads : ByIndex_Parse(t)
    \/ \E t \in Threads : ByIndex_Store(t)

SpecCache == InitCache /\ [][NextCache]_vars

----------------------------------------------------------------------------
(* SpecClose: a pdb.File opened from a path (its msf.File closes the        *)
(* os.File) or over a ReaderAt (no closer), used through Close and the      *)
(* getters of its TPI, IPI and DBI streams in any order.  Some of the        *)
(* streams may not parse.                                                    *)

Getters == {"tpiStream", "ipiStream", "dbiStream"}

InitClose ==
    /\ pdb \in { [closed |-> FALSE, closer |-> c] : c \in BOOLEAN }
    /\ source \in { [closed |-> FALSE, corrupt |-> k] : k \in SUBSET Getters }
    /\ lazy = [c \in Getters \cup {"directory"} |-> NotLoaded]
    /\ lateReads = 0
    /\ pcall = NoPcall
    /\ StreamIdle
    /\ FileIdle
    /\ SymIdle
    /\ ConIdle
    /\ TpiIdle
    /\ DbiIdle
    /\ IterIdle
    /\ TypesIdle
    /\ PubIdle
    /\ ReaderIdle
    /\ CacheIdle
    /\ DemIdle

\* err := f.Close()
CallClose ==
    /\ LET r == File_Close(pdb, source)
       IN  /\ pdb' = r.file
           /\ source' = r.source
           /\ pcall' = [op |-> "Close", err |-> r.err, closed |-> pdb.closed,
                        cached |-> FALSE, reads |-> 0]
    /\ UNCHANGED <<lazy, lateReads>>
    /\ UNCHANGED notCloseVars

\* an operation of the File that needs the stream of c
CallGet(c) ==
    /\ LET r == File_get(c, source, lazy)
       IN  /\ lazy' = r.lazy
           /\ lateReads' = IF pdb.closed THEN lateReads + r.reads ELSE lateReads
           /\ pcall' = [op |-> c, err |-> r.err, closed |-> pdb.closed,
                        cached |-> lazy[c].done, reads |-> r.reads]
    /\ UNCHANGED <<pdb, source>>
    /\ UNCHANGED notCloseVars

NextClose ==
    \/ CallClose
    \/ \E c \in Getters : CallGet(c)

SpecClose == InitClose /\ [][NextClose]_vars

----------------------------------------------------------------------------
(* SpecReader: a stream.Reader over a short byte slice, used through its    *)
(* methods in any order.  The bytes are 0 (a string terminator), 1 and     *)
(* 0x80, so that two of them make numeric leaves below                      *)
(* 0x8000, the leaves LF_CHAR and LF_SHORT, and leaves ReadNumeric rejects.  *)

\* largest length of the data
MaxData == 4

ReaderBytes == {0, 1, 128}

ReaderData == UNION { [1..n -> ReaderBytes] : n \in 0..MaxData }

InitReader ==
    /\ reader \in { NewReader(data) : data \in ReaderData }
    /\ rret = NoRret
    /\ StreamIdle
    /\ FileIdle
    /\ SymIdle
    /\ ConIdle
    /\ TpiIdle
    /\ DbiIdle
    /\ IterIdle
    /\ TypesIdle
    /\ PubIdle
    /\ LaterIdle

\* the Reader and the result after a call
Returns(op, arg, out) ==
    /\ reader' = out.r
    /\ rret' = [op |-> op, arg |-> arg, from |-> reader.offset, err |-> out.err,
                val |-> out.val]
    /\ UNCHANGED notReaderVars

CallSkip(n) == Returns("Skip", n, Reader_Skip(reader, n))

CallAlign(alignment) == Returns("Align", alignment, Reader_Align(reader, alignment))

CallReadFixed(width) == Returns("ReadFixed", width, Reader_ReadFixed(reader, width))

CallReadBytes(n) == Returns("ReadBytes", n, Reader_ReadBytes(reader, n))

CallReadCString == Returns("ReadCString", 0, Reader_ReadCString(reader))

CallReadNumeric == Returns("ReadNumeric", 0, Reader_ReadNumeric(reader))

CallSubReader(length) == Returns("SubReader", length, Reader_SubReader(reader, length))

NextReader ==
    \/ \E n \in 0..(Len(reader.data) + 1) : CallSkip(n)
    \/ \E alignment \in {0, 1, 2, 4} : CallAlign(alignment)
    \/ \E width \in {1, 2, 4, 8} : CallReadFixed(width)
    \/ \E n \in 0..(Len(reader.data) + 1) : CallReadBytes(n)
    \/ CallReadCString
    \/ CallReadNumeric
    \/ \E length \in 0..(Len(reader.data) + 1) : CallSubReader(length)

SpecReader == InitReader /\ [][NextReader]_vars

----------------------------------------------------------------------------
(* Claims about the virtual stream *)

\* the block-list entry of stream position o, and whether position o has a
\* byte in the source
BlockOf(o) == stream.blocks[(o \div stream.blockSize) + 1]
Stored(o) == BlockOf(o) * stream.blockSize + (o % stream.blockSize) < stream.data.size

\* C2: a random read (ReadAt, or Bytes, which is ReadAt at 0) returns for every
\* stream position o it covers the byte stored at file offset
\* blocks[o div B] * B + (o mod B), and it covers every requested position
\* below the stream size when those positions are stored in the source
C2_ReadAtMapsBlocks ==
    ret.op \in {"ReadAt", "Bytes"} =>
        /\ Len(ret.bytes) = ret.n
        /\ \A i \in 1..ret.n :
              LET o == ret.off + i - 1
              IN  /\ o < stream.streamSize
                  /\ ret.bytes[i] =
                        stream.data.bytes[BlockOf(o) * stream.blockSize
                                            + (o % stream.blockSize)]
        /\ (/\ ret.off >= 0
            /\ ret.off < stream.streamSize
            /\ \A o \in ret.off..(Min(ret.off + ret.plen, stream.streamSize) - 1) :
                  Stored(o))
           => ret.n = Min(ret.plen, stream.streamSize - ret.off)

\* C2 witness: a ReadAt returned bytes of three blocks that do not follow
\* each other in the file
C2_Witness ==
    /\ ret.op \in {"ReadAt", "Bytes"}
    /\ ret.n >= 2
    /\ Len(stream.blocks) >= 3
    /\ (ret.off + ret.n - 1) \div stream.blockSize >= (ret.off \div stream.blockSize) + 2
    /\ stream.blocks[2] # stream.blocks[1] + 1
    /\ stream.blocks[3] # stream.blocks[2] + 1

\* C3: a sequential read from position 0 that has reached EOF returned exactly
\* streamSize bytes, in stream order, and a Read or ReadAt at or beyond
\* streamSize returns zero bytes with EOF
C3_SequentialReadComplete ==
    /\ (seq.clean /\ seq.eof) =>
          /\ Len(seq.bytes) = stream.streamSize
          /\ \A o \in 0..(stream.streamSize - 1) :
                /\ Stored(o)
                /\ seq.bytes[o + 1] =
                      stream.data.bytes[BlockOf(o) * stream.blockSize
                                          + (o % stream.blockSize)]
    /\ (ret.op = "Read" /\ ret.pos0 >= stream.streamSize) =>
          (ret.n = 0 /\ ret.err = EOF)
    /\ (ret.op = "ReadAt" /\ ret.off >= stream.streamSize) =>
          (ret.n = 0 /\ ret.err = EOF)

----------------------------------------------------------------------------
(* Claims about the container *)

\* the first n bytes the source holds, and the header words as the file
\* stores them
SrcPrefix(n) == [i \in 1..Min(n, src.size) |-> SrcByte(src, i - 1)]
HdrBlockSize == Uint32LE(SrcPrefix(SuperBlockSize), 32)
HdrFPM == Uint32LE(SrcPrefix(SuperBlockSize), 36)
HdrNumBlocks == Uint32LE(SrcPrefix(SuperBlockSize), 40)

IsPowerOfTwo(n) == \E k \in 0..30 : n = 2^k

SuperBlockInvariants ==
    /\ src.size >= SuperBlockSize
    /\ IsPowerOfTwo(HdrBlockSize)
    /\ 512 <= HdrBlockSize /\ HdrBlockSize <= 65536
    /\ HdrFPM \in {1, 2}
    /\ HdrNumBlocks * HdrBlockSize <= src.size

NewFileReturned == openErr \notin {"pending", "idle"}

\* C1: a file that NewFile opened has a block size that is a power of two
\* between 512 and 65536, a free-block-map index of 1 or 2 and
\* NumBlocks * BlockSize <= file size; a file violating any of these is
\* rejected by NewFile
C1_OpenedFileSatisfiesInvariants ==
    NewFileReturned =>
        /\ (openErr = NoErr \/ msf.open) =>
              /\ SuperBlockInvariants
              /\ msf.superBlock.BlockSize = HdrBlockSize
              /\ msf.superBlock.NumBlocks = HdrNumBlocks
        /\ ~SuperBlockInvariants => (openErr # NoErr /\ ~msf.open)

\* C1 witness: a file was opened whose size is exactly NumBlocks * BlockSize
C1_Witness ==
    /\ msf.open
    /\ openErr = NoErr
    /\ msf.superBlock.NumBlocks > 0
    /\ msf.superBlock.NumBlocks * msf.superBlock.BlockSize = src.size

\* C8: when the block map holds a block index >= NumBlocks, loading the
\* directory fails with ErrInvalidBlockIndex; when the block list of a stream
\* holds a block index >= NumBlocks, ReadStream of that stream fails with
\* ErrInvalidBlockIndex and returns no data
C8_BadBlockIndexRejected ==
    /\ (/\ msf.open
        /\ dirOnce
        /\ LET bm == readBlockMap(msf.superBlock, src)
           IN  /\ bm.err = NoErr
               /\ \E j \in 1..Len(bm.blockMap) :
                     ~ULt(bm.blockMap[j], msf.superBlock.NumBlocks))
       => dirErr = ErrInvalidBlockIndex
    /\ (/\ fret.op = "ReadStream"
        /\ dirErr = NoErr
        /\ fret.arg < directory.NumStreams
        /\ \E j \in 1..Len(directory.StreamBlocks[fret.arg + 1]) :
              ~ULt(directory.StreamBlocks[fret.arg + 1][j], msf.superBlock.NumBlocks))
       => (fret.err = ErrInvalidBlockIndex /\ fret.bytes = <<>>)

\* C9 as stated: a file whose first 32 bytes are not the magic fails to open
\* with ErrInvalidMagic, and at most the superblock read was made
C9_BadMagicIsInvalidMagic ==
    (NewFileReturned /\ SrcPrefix(MagicSize) # Magic) =>
        (openErr = ErrInvalidMagic /\ ~msf.open /\ srcReads <= 1)

\* C9: a file of at least 56 bytes whose first 32 bytes are not the magic
\* fails to open with ErrInvalidMagic after exactly one read of the source
\* (the superblock), whatever its other header fields hold, and no read
\* follows; a shorter file fails with ErrTruncatedFile and is never read
C9_BadMagicRejected ==
    (NewFileReturned /\ SrcPrefix(MagicSize) # Magic) =>
        /\ ~msf.open
        /\ ~dirOnce
        /\ IF src.size >= SuperBlockSize
           THEN openErr = ErrInvalidMagic /\ srcReads = 1
           ELSE openErr = ErrTruncatedFile /\ srcReads = 0

\* C9 witness: NewFile returned ErrInvalidMagic for a header whose block size
\* is invalid as well
C9_Witness ==
    /\ openErr = ErrInvalidMagic
    /\ SrcPrefix(MagicSize) # Magic
    /\ HdrBlockSize = 256
    /\ srcReads = 1

\* C10: StreamExists(i) returns true exactly when i < NumStreams and the
\* directory size of stream i is not NilStreamSize
C10_StreamExistsIffNotNil ==
    (fret.op = "StreamExists" /\ fret.err = NoErr) =>
        (fret.ok <=> (/\ fret.arg < directory.NumStreams
                      /\ directory.StreamSizes[fret.arg + 1] # NilStreamSize))

----------------------------------------------------------------------------
(* Claims about the symbol indices *)

\* the placed records (offset and record) the stream was written from
PlacedRecords == { symRecs[i] : i \in 1..Len(symRecs) }

\* a record that carries a name: of a kind with a name field, the name
\* terminated
CarriesName(p) == p.rec.kind # S_END /\ p.rec.form = "ok"

\* a record behind which the linear scan goes on: its length field is sound
WellFramed(p) == p.rec.form # "len0"

\* C4 as stated: FindByName(n) returns at least one offset for every name n
\* that a record of the stream carries, and every offset it returns is the
\* start of a record whose name is n
C4_EveryNameFound ==
    sret.op = "FindByName" =>
        /\ (\E p \in PlacedRecords : CarriesName(p) /\ p.rec.name = sret.name)
              => Len(sret.offsets) >= 1
        /\ \A i \in 1..Len(sret.offsets) :
              \E p \in PlacedRecords :
                  /\ p.at = sret.offsets[i]
                  /\ CarriesName(p)
                  /\ p.rec.name = sret.name

\* C4: FindByName(n) returns exactly the offsets, in stream order, of the
\* records that carry the name n, n not empty, and that the scan reaches
\* (every record before them is well framed); it returns none for the empty
\* name; when it returns any, the symbol found is the first of them and has
\* the name n
C4_NonEmptyReachedNamesFound ==
    sret.op = "FindByName" =>
        LET hits == { p \in PlacedRecords :
                        /\ CarriesName(p)
                        /\ p.rec.name = sret.name
                        /\ p.rec.name # <<>>
                        /\ \A q \in PlacedRecords : q.at < p.at => WellFramed(q) }
        IN  /\ { sret.offsets[i] : i \in 1..Len(sret.offsets) } = { p.at : p \in hits }
            /\ \A i \in 1..(Len(sret.offsets) - 1) : sret.offsets[i] < sret.offsets[i + 1]
            /\ sret.found = (hits # {})
            /\ sret.found => /\ sret.sym.name = sret.name
                             /\ \E p \in hits : /\ p.at = sret.offsets[1]
                                                /\ p.rec.kind = sret.sym.kind

\* C4 witness: a name was found while a record of another name lies in the
\* same hash bucket
C4_Witness ==
    /\ sret.op = "FindByName"
    /\ sret.found
    /\ \E p \in PlacedRecords :
          /\ CarriesName(p)
          /\ p.rec.name # sret.name
          /\ p.rec.name # <<>>
          /\ hashName(p.rec.name) % numBuckets = hashName(sret.name) % numBuckets

\* the entries of the address index, and those at or below the address asked
AddrEntries == { addrIndex.entries[i] : i \in 1..Len(addrIndex.entries) }
AtOrBelow == { e \in AddrEntries : e.Section = sret.section /\ e.Offset <= sret.offset }

\* C5: FindByAddress(section, offset) returns the entry of the address index
\* with the largest offset among those of the section at or below the
\* offset, with exact true exactly when that offset is the one asked, and
\* not found when there is no such entry; the entries are the S_PUB32 records
\* the address map names, and the symbol returned lies at the entry's address
C5_ContainingSymbol ==
    sret.op = "FindSymbolContaining" =>
        /\ AddrEntries =
              { [Section |-> p.rec.seg, Offset |-> p.rec.off, SymOffset |-> p.at] :
                  p \in { q \in PlacedRecords :
                            /\ q.rec.kind = S_PUB32
                            /\ q.rec.form = "ok"
                            /\ \E i \in 1..Len(addrMap) : addrMap[i] = q.at } }
        /\ IF AtOrBelow = {} THEN ~sret.at.found /\ ~sret.found
           ELSE /\ sret.at.found
                /\ \E e \in AtOrBelow :
                      /\ \A d \in AtOrBelow : d.Offset <= e.Offset
                      /\ sret.at.symOffset = e.SymOffset
                      /\ sret.at.exact = (e.Offset = sret.offset)
                      /\ sret.found
                      /\ sret.sym.section = e.Section
                      /\ sret.sym.offset = e.Offset

\* C5 witness: the address asked lies above the entry returned, and the
\* index holds an entry of a lower section
C5_Witness ==
    /\ sret.op = "FindSymbolContaining"
    /\ sret.at.found
    /\ ~sret.at.exact
    /\ \E e \in AddrEntries : e.Section < sret.section

\* every entry of the built address index stands for an S_PUB32 record of
\* the stream, and no entry is less than one before it
SortedPublicEntries ==
    /\ \A e \in AddrEntries :
          \E p \in PlacedRecords :
              /\ p.at = e.SymOffset
              /\ p.rec.kind = S_PUB32
              /\ p.rec.seg = e.Section
              /\ p.rec.off = e.Offset
    /\ \A i, j \in 1..Len(addrIndex.entries) :
          i < j => ~AddressLess(addrIndex.entries[j], addrIndex.entries[i])

\* C16 as stated: in the built address index every entry is an S_PUB32
\* record, the entries are sorted ascending by (section, offset), and no two
\* entries share the same (section, offset).
C16_SortedUniquePublicEntries ==
    addrIndex.built =>
        /\ SortedPublicEntries
        /\ \A i, j \in 1..Len(addrIndex.entries) :
              i # j => \/ addrIndex.entries[i].Section # addrIndex.entries[j].Section
                       \/ addrIndex.entries[i].Offset # addrIndex.entries[j].Offset

\* C16 as the code has it: in the built address index every entry is an
\* S_PUB32 record and the entries are sorted by (section, offset), no entry
\* less than one before it; records that share an address all have an entry.
C16_SortedPublicEntries ==
    addrIndex.built =>
        /\ SortedPublicEntries
        /\ \A p \in PlacedRecords :
              (/\ p.rec.kind = S_PUB32
               /\ p.rec.form = "ok"
               /\ \E i \in 1..Len(addrMap) : addrMap[i] = p.at)
                  => \E e \in AddrEntries : e.SymOffset = p.at

\* C16 witness: the index was built from an address map that names two
\* S_PUB32 records, the one of the higher address first
C16_Witness ==
    /\ addrIndex.built
    /\ Len(addrIndex.entries) >= 2
    /\ AddressLess(addrIndex.entries[1], addrIndex.entries[2])
    /\ \E i, j \in 1..Len(addrMap) :
          /\ i < j
          /\ addrMap[i] = addrIndex.entries[2].SymOffset
          /\ addrMap[j] = addrIndex.entries[1].SymOffset

----------------------------------------------------------------------------
(* Claims about the lazily built structures *)

\* C6: for each once-built lazy structure (stream directory, TPI, IPI, DBI,
\* symbol-record bytes, PSI, name index, address index, cached public list)
\* the build runs at most once, every caller of its getter is handed the one
\* outcome stored beside the sync.Once, value or error, and a failed build is
\* not run again.
C6_BuildRunsOnce ==
    \A c \in Cells :
        /\ builds[c] <= 1
        /\ returned[c] # {} => once[c].done /\ returned[c] = {cell[c]}

\* both threads have called the getter of a structure whose build fails, one
\* after or beside the other, and both hold its error from the single build
C6_Witness ==
    \E c \in failing :
        /\ builds[c] = 1
        /\ \A t \in Threads :
              thr[t] = <<>> /\ cret[t].op = c /\ cret[t].err = c /\ cret[t].val = 0

\* what PublicCount may return: the count of the scan, or the length of the
\* completely built cached list; 0 when the symbol-record bytes cannot be read
PublicCountAllowed ==
    IF failing \cap {"directory", "symRecordData"} # {}
    THEN {0}
    ELSE {PublicCountScan(symData, 0, 0), Len(loadPublicSymbols(symData, 0, <<>>))}

\* C7: no operation reads a shared cache field that another thread may be
\* writing without synchronization; PublicCount running beside PublicCached
\* returns the scanned count or the length of the completely built list.
C7_PublicCountSynchronized ==
    /\ ~raced
    /\ \A o \in returned["PublicCount"] : o.val \in PublicCountAllowed

----------------------------------------------------------------------------
(* Claims about the TPI/IPI stream *)

\* the type indices the header of the parsed stream announces
TypeIndexRange == tpi.Header.TypeIndexBegin..(tpi.Header.TypeIndexEnd - 1)

\* C11: after a TPI/IPI stream has parsed successfully, every type index ti
\* in [type_index_begin, type_index_end) has exactly one record at
\* offset_of[ti], and fetching that record any number of times returns the
\* same (kind, length) framing.
C11_EveryIndexHasOneRecord ==
    tpi.err = NoErr =>
        /\ \A ti \in TypeIndexRange :
              /\ ti \in DOMAIN tpi.recordOffsets
              /\ GetTypeRecord(tpi, typeCache, ti).err = NoErr
              /\ ~GetTypeRecord(tpi, typeCache, ti).rec.nil
        /\ \A ti \in TypeQueries : Cardinality(fetched[ti]) <= 1

\* C11, the second half alone: repeated fetches of a type index return the
\* same result
C11_RepeatedFetchStable ==
    \A ti \in DOMAIN fetched : Cardinality(fetched[ti]) <= 1

\* C13, the TPI/IPI half: a stream of at least TPIHeaderSize bytes whose
\* version is neither 19990903 nor 20040203 fails with UnsupportedVersion
TpiVersionRejected ==
    (/\ tpi.err # "idle"
     /\ Len(tpiData) >= TPIHeaderSize
     /\ Uint32LE(tpiData, 0) \notin {TPIVersionV70, TPIVersionV80})
        => tpi.err = ErrUnsupportedVersion

----------------------------------------------------------------------------
(* Claims about the DBI stream *)

\* the header version of the stream in dbiData
DbiVersion == Uint32LE(dbiData, 4)

\* C13: parsing a TPI, IPI or DBI stream whose header version is not in the
\* accepted set (DBI: 19990903 and later) fails with UnsupportedVersion.
C13_UnsupportedVersionRejected ==
    (/\ dbi.err # "idle"
     /\ Len(dbiData) >= DBIHeaderSize
     /\ Uint32LE(dbiData, 0) = -1
     /\ DbiVersion < DBIVersionV70)
        => dbi.err = Dbi_ErrUnsupportedVersion

\* the number of stream indices the optional debug header of dbiData holds
DbgFieldsPresent == Uint32LE(dbiData, 48) \div 2

\* C14: after parsing an optional-debug-header substream that holds fewer
\* than 11 stream indices, every index field not present in the data has the
\* value 0xFFFF, so an absent field is never taken for a real stream index.
C14_AbsentFieldsInvalid ==
    /\ (dbi.err = NoErr /\ dbi.OptionalDbgStreams # <<>>) =>
          \A i \in 1..OptionalDbgFields :
              i > DbgFieldsPresent => dbi.OptionalDbgStreams[i] = InvalidStreamIndex
    /\ (dret.err # "idle" /\ dbi.OptionalDbgStreams # <<>>
          /\ DbgFieldsPresent < SectionHdrField)
          => dret.err = "pdb: no section header stream"

-----------------------------------------------------------------------------
(* Claims about the iterators *)

\* the records of the symbol-record stream written before offset upTo
RecordsBefore(upTo) == SelectSeq(symRecs, LAMBDA p : p.at < upTo)

\* the element a record of the symbol-record stream stands for
ElementOf(from, r) ==
    [from |-> from, kind |-> r.kind, name |-> r.name, section |-> r.seg,
     offset |-> r.off]

\* the public symbols written before offset upTo, in stream order
PublicBefore(upTo) ==
    LET pubs == SelectSeq(RecordsBefore(upTo),
                          LAMBDA p : p.rec.kind = S_PUB32 /\ p.rec.form = "ok")
    IN  [i \in 1..Len(pubs) |-> ElementOf(0, pubs[i].rec)]

\* C12: while the symbol-record stream is iterated, the cursor stands at the
\* start of a record (or at the end of the stream), every record before it
\* has been parsed, and the public symbols before it have all been yielded,
\* whether or not the payloads of the records in between decoded
C12_CursorAdvancesByLength ==
    it.stage = "scan" =>
        /\ it.offset \in {symRecs[i].at : i \in 1..Len(symRecs)} \cup {Len(symData)}
        /\ parsed = Len(RecordsBefore(it.offset))
        /\ yielded = PublicBefore(it.offset)

\* a record whose payload does not decode has been passed and the public
\* symbol after it has been yielded
C12_Witness ==
    /\ it.stage = "scan"
    /\ Len(symRecs) = 2
    /\ symRecs[1].rec.form = "noNul"
    /\ it.offset > symRecs[2].at
    /\ Len(yielded) = 1

\* the kinds of record Module.Symbols is to yield: functions, data, UDTs,
\* constants, locals, labels, blocks and thunks
ModuleLevelKinds ==
    {S_GPROC32, S_LPROC32, S_GPROC32_ID, S_LPROC32_ID, S_GDATA32, S_LDATA32,
     S_UDT, S_UDT_ST, S_CONSTANT, S_CONSTANT_ST, S_LOCAL, S_LABEL32, S_BLOCK32,
     S_THUNK32}

\* the module-level symbols among the records rs of module m, in order
ModuleLevel(m, rs) ==
    LET level == SelectSeq(rs, LAMBDA r : r.kind \in ModuleLevelKinds /\ r.form = "ok")
    IN  [i \in 1..Len(level) |-> ElementOf(m, level[i])]

\* the symbols symbolsOnce has left in module m
ModuleElements(m) ==
    [i \in 1..Len(modSyms[m].symbols) |-> Element(m, modSyms[m].symbols[i])]

\* C15: the symbols of a module are those of the records between byte 4 and
\* byte SymByteSize of its stream, and no others
C15_DecodedWithinSymByteSize ==
    \A m \in 1..Len(mods.list) :
        modSyms[m].done => ModuleElements(m) = ModuleLevel(m, mods.list[m].recs)

\* the whole of a module's stream after the signature, read as records
StreamRecords(m) == mods.list[m].recs \o mods.list[m].tail

\* the public symbols Public() reaches: those before the first record with
\* a length field below 2
PublicReached ==
    LET bad == {symRecs[i].at : i \in {j \in 1..Len(symRecs) : symRecs[j].rec.form = "len0"}}
        upTo == IF bad = {} THEN Len(symData)
                ELSE CHOOSE a \in bad : \A b \in bad : a <= b
    IN  PublicBefore(upTo)

\* the module-level symbols of the modules from m on, in module order; a
\* module whose parseSymbols panicked holds no symbols
RECURSIVE ModulesFrom(_)
ModulesFrom(m) ==
    IF m > Len(mods.list) THEN <<>>
    ELSE (IF modSyms[m].done /\ modSyms[m].panic THEN <<>>
          ELSE ModuleLevel(m, StreamRecords(m))) \o ModulesFrom(m + 1)

\* what All() is to yield: the public symbols, then the module-level symbols
\* of each module's stream, in module order
ExpectedAll == PublicReached \o (IF mods.err THEN <<>> ELSE ModulesFrom(1))

IsPrefix(s, t) == Len(s) <= Len(t) /\ s = SubSeq(t, 1, Len(s))

\* C17: what All() has yielded is an initial part of the public symbols
\* followed by the module-level symbols of the modules in module order, no
\* element of an earlier source comes after one of a later source, and an
\* iteration that ran to its end has yielded all of them
C17_PublicsThenModulesInOrder ==
    it.op = "All" =>
        /\ IsPrefix(yielded, ExpectedAll)
        /\ \A i, j \in 1..Len(yielded) : i < j => yielded[i].from <= yielded[j].from
        /\ (it.stage = "done" /\ ~stopped.is) => yielded = ExpectedAll

\* All() has run to its end over public symbols and two modules with symbols
C17_Witness ==
    /\ it.op = "All"
    /\ it.stage = "done"
    /\ ~stopped.is
    /\ \A f \in 0..2 : \E i \in 1..Len(yielded) : yielded[i].from = f

\* what the iteration in hand is to yield when it is left to run
ExpectedOf(i) ==
    CASE i.op = "Public" -> PublicReached
      [] i.op = "All" -> ExpectedAll
      [] i.op = "Symbols" ->
           IF modSyms[i.mod].done /\ modSyms[i.mod].panic THEN <<>>
           ELSE ModuleLevel(i.mod, StreamRecords(i.mod))
      [] i.op = "ByName" -> SelectSeq(PublicReached, LAMBDA s : s.name = i.name)
      [] OTHER -> <<>>

-----------------------------------------------------------------------------
(* Claims about the TypeTable *)

\* the data members among the declared fields, in the order of the field list
DataFields(fields) ==
    SelectSeq(fields, LAMBDA f : f.kind \in {LF_MEMBER, LF_STMEMBER})

\* name, offset and static flag of the members returned, and of the data
\* members class i declares
Returned(members) ==
    [k \in 1..Len(members) |->
       <<members[k].Name, members[k].Offset, members[k].IsStatic>>]
Declared(i) ==
    LET fs == DataFields(decl[i].fields)
    IN  [k \in 1..Len(fs) |->
           <<fs[k].name, IF fs[k].kind = LF_STMEMBER THEN 0 ELSE fs[k].offset,
             fs[k].kind = LF_STMEMBER>>]

\* C19: GetMembers(typeIndex) of a class, struct or union returns its data
\* members in the order of the field list, a static member with offset 0 and
\* with IsStatic set
C19_GetMembersFlagsStatics ==
    \A i \in 1..Len(decl) :
        (mret.op = "GetMembers" /\ mret.arg = ClassIndexOf(i)) =>
            /\ mret.err = NoErr
            /\ Returned(mret.members) = Declared(i)

\* the same with the static flag left out: the members come in the order of
\* the field list, each with its name, a static member with offset 0
GetMembers_InFieldListOrder ==
    \A i \in 1..Len(decl) :
        (mret.op = "GetMembers" /\ mret.arg = ClassIndexOf(i)) =>
            /\ mret.err = NoErr
            /\ [k \in 1..Len(mret.members) |->
                  <<mret.members[k].Name, mret.members[k].Offset>>]
                 = [k \in 1..Len(Declared(i)) |-> <<Declared(i)[k][1], Declared(i)[k][2]>>]

\* the members of a class with a static member have been returned
GetMembers_StaticReturned ==
    /\ mret.op = "GetMembers"
    /\ \E k \in 1..Len(mret.members) : mret.members[k].Name = <<115>>

\* the class names reachable from the names in S through base-class fields
RECURSIVE ReachFrom(_)
ReachFrom(S) ==
    LET T == S \cup { decl[j - 1].name :
                        j \in { k \in 2..Len(decl) :
                                  decl[k].edge # 0 /\ decl[k].name \in S } }
    IN  IF T = S THEN S ELSE ReachFrom(T)

\* a class named o declares a data member named m
Declares(o, m) ==
    \E j \in 1..Len(decl) :
        /\ decl[j].name = o
        /\ \E k \in 1..Len(decl[j].fields) :
              /\ decl[j].fields[k].kind \in {LF_MEMBER, LF_STMEMBER}
              /\ decl[j].fields[k].name = m

\* FindMembers("C::m") has yielded the members named m of the classes
\* reachable from C, each under its declaring class, none twice
YieldsInherited(C, m) ==
    (mret.op = "FindMembers" /\ mret.arg = C \o Scope \o m) =>
        /\ { <<mret.members[k].OwnerName, mret.members[k].Name>> :
               k \in 1..Len(mret.members) }
             = { <<o, m>> : o \in { c \in ReachFrom({C}) : Declares(c, m) } }
        /\ \A k, l \in 1..Len(mret.members) :
              (/\ mret.members[k].OwnerName = mret.members[l].OwnerName
               /\ mret.members[k].Name = mret.members[l].Name) => k = l

\* C20: for every class name C of the TPI stream, FindMembers("C::m") yields
\* exactly the members named m declared in C or in a class reachable from C
\* through base-class fields (LF_BCLASS, LF_VBCLASS, LF_IVBCLASS), each with
\* its declaring class as OwnerName and once for each owner and member
C20_QualifiedFindsInherited ==
    \A i \in 1..Len(decl) : \A m \in MemberNames \cup {<<120>>} :
        YieldsInherited(decl[i].name, m)

\* the same for the class names that hold no "::"
FindMembers_UnscopedClassNames ==
    \A i \in 1..Len(decl) : \A m \in MemberNames \cup {<<120>>} :
        Index(decl[i].name) = -1 => YieldsInherited(decl[i].name, m)

\* a member inherited over two base-class fields has been yielded
FindMembers_InheritedYielded ==
    /\ mret.op = "FindMembers"
    /\ Len(decl) = 3
    /\ mret.arg = decl[3].name \o Scope \o <<109>>
    /\ \E k \in 1..Len(mret.members) : mret.members[k].OwnerName = decl[1].name
    /\ decl[1].name # decl[3].name

-----------------------------------------------------------------------------
(* Claims about the read position of the virtual stream *)

\* what ReadAt returns on the same stream with its read position at 0
ReadAtFromStart(plen, off) == Stream_ReadAt([stream EXCEPT !.pos = 0], plen, off)

\* C27: ReadAt leaves the sequential read position where it was, and what it
\* returns (byte count, bytes, EOF or no error) is what it returns for the
\* same buffer length and offset on the stream before any Read or Seek
C27_ReadAtIgnoresPosition ==
    ret.op = "ReadAt" =>
        /\ stream.pos = ret.pos0
        /\ ret.n = ReadAtFromStart(ret.plen, ret.off).n
        /\ ret.bytes = ReadAtFromStart(ret.plen, ret.off).bytes
        /\ ret.err = ReadAtFromStart(ret.plen, ret.off).err

\* the same for the buffers that hold at least one byte
ReadAt_NonEmptyBufferIgnoresPosition ==
    (ret.op = "ReadAt" /\ ret.plen > 0) =>
        /\ stream.pos = ret.pos0
        /\ ret.n = ReadAtFromStart(ret.plen, ret.off).n
        /\ ret.bytes = ReadAtFromStart(ret.plen, ret.off).bytes
        /\ ret.err = ReadAtFromStart(ret.plen, ret.off).err

-----------------------------------------------------------------------------
(* Claims about the count of the public symbols *)

\* C28: PublicCount() returns the number of public symbols Public() yields
\* and PublicCached() returns, and every call of it returns the same value,
\* before PublicCached() and after it
C28_PublicCountIsNumberYielded ==
    /\ pret.op = "PublicCount" =>
          /\ pret.count = Len(SymbolTable_Public(symData, 0, <<>>))
          /\ pret.count = Len(PublicCached(publicSymbols, symData).list)
    /\ Cardinality(pret.counts) <= 1

\* Public() yields the symbols PublicCached() returns, and PublicCount()
\* after PublicCached() returns their number
PublicCount_AfterCachedIsNumberYielded ==
    /\ pret.op = "PublicCached" => pret.list = SymbolTable_Public(symData, 0, <<>>)
    /\ (pret.op = "PublicCount" /\ ~publicSymbols.nil) =>
          pret.count = Len(SymbolTable_Public(symData, 0, <<>>))

-----------------------------------------------------------------------------
(* Claims about the Reader *)

\* the calls that read: fixed-width integers, byte slices, C strings, numerics
ReadOps == {"ReadFixed", "ReadBytes", "ReadCString", "ReadNumeric"}

\* the call asked for bytes beyond the end of the data
CrossesEnd ==
    CASE rret.op \in {"ReadFixed", "ReadBytes"} -> rret.from + rret.arg > Len(reader.data)
      [] rret.op = "ReadCString" ->
           \A i \in (rret.from + 1)..Len(reader.data) : reader.data[i] # 0
      [] rret.op = "ReadNumeric" ->
           \/ rret.from + 2 > Len(reader.data)
           \/ /\ Uint16LE(reader.data, rret.from) >= 32768
              /\ NumericWidth(Uint16LE(reader.data, rret.from)) > 0
              /\ rret.from + 2 + NumericWidth(Uint16LE(reader.data, rret.from))
                   > Len(reader.data)
      [] OTHER -> FALSE

\* C23: a read whose request crosses the end of the data fails with
\* ErrUnexpectedEOF and leaves the offset of the Reader where it was before
\* the call
C23_FailedReadConsumesNothing ==
    (rret.op \in ReadOps /\ CrossesEnd) =>
        /\ rret.err = ErrUnexpectedEOF
        /\ reader.offset = rret.from

\* the same without the offset: a read that crosses the end fails with
\* ErrUnexpectedEOF, and a fixed-width or byte-slice read that fails leaves
\* the offset where it was
FailedRead_IsUnexpectedEOF ==
    /\ (rret.op \in ReadOps /\ CrossesEnd) => rret.err = ErrUnexpectedEOF
    /\ (rret.op \in {"ReadFixed", "ReadBytes"} /\ rret.err # NoErr) =>
          reader.offset = rret.from

\* C29: the offset of the Reader is at least 0 and at most the length of its
\* data
C29_OffsetWithinData ==
    /\ 0 <= reader.offset
    /\ reader.offset <= Len(reader.data)

\* the same for a Reader that Align has not been called on since it was made
OffsetWithinData_WithoutAlign ==
    [][rret'.op # "Align" =>
         (reader.offset <= Len(reader.data) => reader'.offset <= Len(reader'.data))]_vars

----------------------------------------------------------------------------
(* Claims about the type cache of the TypeTable *)

\* the Types allocated for the type index
DecodedFor(index) == { i \in 1..Len(allocated) : allocated[i] = index }

\* the Types ByIndex has returned for the type index
GotFor(index) == { g.typ : g \in { h \in given : h.index = index /\ h.err = NoErr } }

OnceDecoded(index) ==
    /\ Cardinality(DecodedFor(index)) <= 1
    /\ Cardinality(GotFor(index)) <= 1
    /\ index \notin replaced

\* C24: when threads call ByIndex for one type index at the same time, one
\* of them decodes the record and stores the Type, every caller is given that
\* one Type, and the entry of the cache is never replaced once it is set.
C24_OneThreadDecodes == \A index \in CacheQueries : OnceDecoded(index)

\* two calls for one type index both missed, both decoded and both stored
C24_BothDecoded ==
    \E index \in CacheQueries :
        /\ Cardinality(DecodedFor(index)) = 2
        /\ Cardinality(GotFor(index)) = 2
        /\ index \in replaced

\* as long as no call for a type index began while another call for it was
\* under way, the record was decoded once, every caller was given that Type
\* and the entry was never replaced
ByIndex_OneDecodeWithoutOverlap ==
    \A index \in CacheQueries \ overlapped : OnceDecoded(index)

ByIndex_SecondCallGivenCached ==
    \E index \in CacheQueries \ overlapped :
        /\ Cardinality(DecodedFor(index)) = 1
        /\ index \in DOMAIN ttTypeCache
        /\ lookup = [t \in Threads |-> NoLookup]
        /\ Cardinality({ g \in given : g.index = index }) = 1
        /\ Len(allocated) + Cardinality(given) = MaxLookups

----------------------------------------------------------------------------
(* Claims about a closed File *)

\* C30: once Close has returned, no operation reads the byte source, an
\* operation that needs a structure not loaded before fails with
\* ErrFileClosed, and a further Close does nothing and returns no error.
C30_ClosedFileIsNotRead ==
    /\ lateReads = 0
    /\ (pcall.op \in Getters /\ pcall.closed /\ ~pcall.cached) => pcall.err = ErrFileClosed
    /\ (pcall.op = "Close" /\ pcall.closed) => pcall.err = NoErr

\* a File over a ReaderAt loaded a stream from the byte source after Close
C30_ReadAfterClose ==
    /\ pcall.op \in Getters
    /\ pcall.closed
    /\ ~pcall.cached
    /\ pcall.err = NoErr
    /\ lateReads > 0

\* a Close of a closed File returns no error and leaves the File and the
\* byte source as they are
Close_RepeatedDoesNothing ==
    [][(pdb.closed /\ pcall'.op = "Close")
         => (pcall'.err = NoErr /\ UNCHANGED <<pdb, source, lazy, lateReads>>)]_vars

Close_Repeated == pcall.op = "Close" /\ pcall.closed /\ source.closed

\* after Close of a File opened from a path, an operation that needs a
\* structure not loaded before returns an error, and a structure loaded
\* before is returned as it was
Close_PathFileFailsUnloaded ==
    (pcall.op \in Getters /\ pcall.closed /\ ~pcall.cached /\ pdb.closer)
        => pcall.err \notin {NoErr, ErrFileClosed}

Close_UnloadedFailed ==
    /\ pcall.op \in Getters
    /\ pcall.closed
    /\ ~pcall.cached
    /\ pdb.closer
    /\ pcall.reads > 0

----------------------------------------------------------------------------
(* Claims about the demangler *)

\* the name of the symbol is a decorated name
Decorated == Len(symName) > 0 /\ symName[1] = "?"

\* C21: when the parse of a decorated name fails at any point, Demangle
\* returns the decorated name unchanged, never a string demangled in part,
\* and DemangledName returns the raw name.
C21_FailedParseReturnsOriginal ==
    /\ (Decorated /\ dem.op = "Demangle" /\ dem.errs # <<>>) => dem.out = Concat(symName)
    /\ (Decorated /\ symbol.done /\ symbol.errs # <<>>)
          => symbol.demangledName = Concat(symName)

\* a parse function raised an error and Demangle returned a string other
\* than the decorated name, with no error
C21_PartlyDemangled ==
    /\ Decorated
    /\ dem.op = "Demangle"
    /\ dem.errs # <<>>
    /\ dem.err = NoErr
    /\ dem.out # Concat(symName)

\* when Demangle returns an error it returns the decorated name beside it,
\* and DemangledName then returns the raw name
Demangle_ErrorReturnsOriginal ==
    /\ (dem.op = "Demangle" /\ dem.err \notin {NoErr, IndexPanic, ErrEmptyInput})
          => dem.out = Concat(symName)
    /\ (symbol.done /\ Demangle(symName).err \notin {NoErr, IndexPanic})
          => symbol.ret = Concat(symName)

Demangle_ErrorReturned ==
    /\ Decorated
    /\ dem.op = "Demangle"
    /\ dem.err \notin {NoErr, IndexPanic}
    /\ symbol.done
    /\ symbol.ret = Concat(symName)

\* ?f@@YAHH@Z
GlobalFunction == <<"?", "f", "@", "@", "Y", "A", "H", "H", "@", "Z">>

\* C22 as stated: Demangle of ?f@@YAHH@Z returns "int __cdecl f(int)": the
\* return type, the calling convention, the name and the parameters in
\* parentheses.
C22_GlobalFunctionRendering ==
    (symName = GlobalFunction /\ dem.op = "Demangle") => dem.out = "int __cdecl f(int)"

\* C22 as the code has it: Demangle of ?f@@YAHH@Z returns "int f(int)" and
\* DemangledName the same: the return type, the name and the parameters in
\* parentheses, the calling convention left out because it is __cdecl; of
\* ?f@@YGHH@Z it returns "int __stdcall f(int)", the calling convention
\* between the return type and the name.
Demangle_CdeclLeftOut ==
    /\ (symName = GlobalFunction /\ dem.op = "Demangle")
          => (dem.out = "int f(int)" /\ dem.err = NoErr)
    /\ (symName = GlobalFunction /\ symbol.done) => symbol.ret = "int f(int)"
    /\ (symName = [GlobalFunction EXCEPT ![6] = "G"] /\ dem.op = "Demangle")
          => dem.out = "int __stdcall f(int)"

Demangle_GlobalFunctionDemangled ==
    /\ symName = GlobalFunction
    /\ dem.op = "Demangle"
    /\ dem.out = "int f(int)"
    /\ symbol.done
    /\ symbol.ret = "int f(int)"

\* the template instantiations the last Demangle went through
Scopes == { dem.scopes[i] : i \in 1..Len(dem.scopes) }

\* C25: the parse of a template instantiation starts with an empty name
\* back-reference ring, and when it is left, with or without an error and at
\* any depth, the ring (entries and count) is what it was before it was
\* entered.
C25_TemplateScopeRestoresRing ==
    \A s \in Scopes : s.start.count = 0 /\ s.after = s.before

\* a template instantiation inside another one failed, and the outer one
\* succeeded; both were entered with names in the ring and left names of
\* their own in it or emptied it
C25_NestedScopesLeft ==
    /\ \E s \in Scopes : /\ s.depth = 2
                          /\ s.err # NoErr
                          /\ s.before.count > 0
                          /\ s.end # s.before
    /\ \E s \in Scopes : /\ s.depth = 1
                          /\ s.err = NoErr
                          /\ s.before.count > 0
                          /\ s.end.count > 0
                          /\ s.end # s.before

\* C26: for every name, Demangle returns a string or one of its errors and
\* never faults on an index out of range, so that DemangledName returns a
\* string for every symbol.
C26_NeverFaults ==
    /\ dem.err # IndexPanic
    /\ ~symbol.panic

\* the only names Demangle faults on are those of a constructor or a
\* destructor (??0, ??1) whose class name has no component
Demangle_FaultsOnEmptyClassName ==
    (dem.err = IndexPanic \/ symbol.panic)
        => /\ Len(symName) >= 3
           /\ SubSeq(symName, 1, 3) \in {<<"?", "?", "0">>, <<"?", "?", "1">>}
           /\ \A i \in 4..Len(symName) : symName[i] = "@"

Demangle_Faulted ==
    /\ dem.err = IndexPanic
    /\ symbol.panic
    /\ Len(symName) = 3

====
